---- MODULE Spec2Model ----
(***************************************************************************)
(* MYMONEY: the ledger-consistency layer (src/supabase/services.ts), the   *)
(* client state cache (src/context/DataContext.tsx) and the balance        *)
(* derivation (DataContext.tsx, `balances`).                               *)
(*                                                                         *)
(* The remote store is a record of tables `db`; a service is an operator   *)
(* from a store (and the outcome of each remote call it issues) to the     *)
(* store it leaves and what it returns or throws.  A DataContext handler   *)
(* is one action: the service call, the local patch of the cache and the   *)
(* refresh, exactly in the order of the code.  A single session issues one *)
(* operation at a time, except in the cascade specification.               *)
(*                                                                         *)
(* Every remote call can fail (transport, authorization); the outcome of   *)
(* each call is an input of the action.  A call whose `error` the code     *)
(* does not look at fails without stopping the handler.                    *)
(*                                                                         *)
(* Rows carry the columns the services write and read; the pass-through    *)
(* columns due_date, initial_note and the card's display columns are left  *)
(* out.  In the ledger specification amounts are whole currency units, on  *)
(* which parseFloat and binary64 arithmetic are exact; the balance         *)
(* specification works on two-decimal amounts and binary64 sums.           *)
(*                                                                         *)
(* The specifications share the definitions: Spec (every handler of the    *)
(* ledger), SpecCredit (entries created and repaid, repayments deleted),   *)
(* SpecCreate (entries created next to other rows), SpecCat (startup, the  *)
(* category handlers and transactions under categories), SpecBal (balances *)
(* of a snapshot), SpecReturn (repayments, edits and deletes of entries),  *)
(* SpecAuth (signing out and in), SpecStartup and FairStartup (the mount:  *)
(* initializeAuth, the auth callback and the loadAllData runs, one remote  *)
(* call at a time), SpecCascade (the delete services and resetToDefaults,  *)
(* one remote call at a time), SpecTenant (two users                       *)
(* behind the row-level policies of src/unnamed/part_000) and SpecProfile  *)
(* (the password form of ProfilePage).                                     *)
(***************************************************************************)
EXTENDS Integers, Sequences, FiniteSets, TLC

VARIABLES
    db,             \* the remote store: one set of rows per table
    nextId,         \* per table, the number of rows the store has inserted
    cache,          \* DataContext state: transactions, categories, cards, creditEntries, creditReceivedEntries
    loader,         \* the loadAllData runs started at startup: where each one is
    bCards,         \* balance derivation: the known cards
    bTransactions,  \* balance derivation: the transaction list
    bBalances,      \* balance derivation: the map computed last
    userId,         \* DataContext state: the user signed in, or none
    tasks,          \* service calls in flight that issue their remote calls one by one
    reset,          \* resetToDefaults: where it is and which branches have not read yet
    tenantDb,       \* a store shared by two users, behind the row-level policies
    profile,        \* ProfilePage: the account password, the password form, the toast
    loading         \* DataContext state: the loading flag

vars == <<db, nextId, cache, loader, bCards, bTransactions, bBalances,
          userId, tasks, reset, tenantDb, profile, loading>>
balanceVars == <<bCards, bTransactions, bBalances>>
\* what the ledger handlers, the startup and the balance derivation leave alone
pageVars == <<userId, tasks, reset, tenantDb, profile>>
ledgerVars == <<db, nextId, cache, loader, pageVars, loading>>

(***************************************************************************)
(* Bounds.                                                                 *)
(***************************************************************************)
\* rows the store ever inserts: transactions, cards, credit entries (lent and
\* received together), history rows (of both kinds together)
MaxTransactions == 3
MaxCards == 1
MaxEntries == 1
MaxHistory == 2
\* transactions entered by hand that the store holds at a time
MaxPlain == 1

(* amounts a credit entry is created with / a return or a plain            *)
(* transaction is recorded with (whole currency units)                     *)
EntryAmounts == {100}
ReturnAmounts == {40, 60}
PlainAmounts == {40}
LedgerAmounts == {40}
People == {"Alice"}

(***************************************************************************)
(* Values.                                                                 *)
(***************************************************************************)
\* the users of the store; User is the one whose session the ledger
\* specifications follow, NoUser is `userId` null
Users == {"A", "B"}
User == "A"
NoUser == "null"

\* the passwords the password form is filled with, and how many of the five
\* strength criteria each meets
Passwords == {"", "Old#Pass1", "New#Pass2", "newpass"}
AccountPassword == "Old#Pass1"

\* SQL NULL / `undefined` in an id column (`x || null`, `x || undefined`)
NoId == 0
\* payment_method NULL / paymentMethod undefined
NoMethod == "none"

Tables ==
    {"transactions", "cards", "credit_entries", "credit_history",
     "credit_received", "credit_received_history", "categories"}

\* row ids are unique across the tables (uuid)
IdBase ==
    [transactions |-> 100, cards |-> 200, credit_entries |-> 300,
     credit_history |-> 400, credit_received |-> 500,
     credit_received_history |-> 600, categories |-> 700]

\* the id the next insert into each table is given
NewIds == [t \in Tables |-> IdBase[t] + nextId[t] + 1]

RECURSIVE SumAmounts(_)
SumAmounts(S) ==
    IF S = {} THEN 0
    ELSE LET r == CHOOSE x \in S : TRUE
         IN  r.amount + SumAmounts(S \ {r})

(***************************************************************************)
(* The store's schema.                                                     *)
(***************************************************************************)
\* column defaults of credit_entries / credit_received: the inserts set
\* neither returned_amount nor status and read both back
DefaultReturnedAmount == 0
DefaultStatus == "active"

DerivedStatus(returned, amount) ==
    IF returned >= amount THEN "fully_returned"
    ELSE IF returned > 0 THEN "partially_returned"
    ELSE "active"

\* store-side recomputation of returned_amount and status after a change of
\* credit_history
CreditHistoryTrigger(d) ==
    [d EXCEPT !.credit_entries =
        { LET returned == SumAmounts({h \in d.credit_history :
                                h.credit_id = e.id /\ h.type = "returned"})
          IN  [e EXCEPT !.returned_amount = returned,
                        !.status = DerivedStatus(returned, e.amount)]
          : e \in d.credit_entries }]

\* the same for credit_received after a change of credit_received_history
CreditReceivedHistoryTrigger(d) ==
    [d EXCEPT !.credit_received =
        { LET returned == SumAmounts({h \in d.credit_received_history :
                                h.credit_received_id = e.id})
          IN  [e EXCEPT !.returned_amount = returned,
                        !.status = DerivedStatus(returned, e.amount)]
          : e \in d.credit_received }]

\* a store without the policy lets any history row in
CanInsertCreditHistory_anyRow(d, creditId) == TRUE

\* policy "Users can insert own credit history": the entry must exist
CanInsertCreditHistory(d, creditId) ==
    \E e \in d.credit_entries : e.id = creditId

\* policy "Users can insert own credit received history"
CanInsertCreditReceivedHistory(d, entryId) ==
    \E e \in d.credit_received : e.id = entryId

\* "cascade will handle this": deleting an entry row removes its history rows
CascadeCreditHistory(d, creditId) ==
    CreditHistoryTrigger(
        [d EXCEPT !.credit_history = {h \in @ : h.credit_id # creditId}])

CascadeCreditReceivedHistory(d, entryId) ==
    CreditReceivedHistoryTrigger(
        [d EXCEPT !.credit_received_history =
            {h \in @ : h.credit_received_id # entryId}])

\* categories are unique per (user_id, name, type): an insert or an update
\* that would give a second row the name and type of `row` is refused
CategoriesUnique(d, row) ==
    \A c \in d.categories :
        c.id # row.id => ~(c.name = row.name /\ c.type = row.type)

(***************************************************************************)
(* State of the pages before anything is done on them.                     *)
(***************************************************************************)
ResetIdle == [pc |-> "idle", reads |-> {}]

EmptyTenantDb == [rows |-> {}, issued |-> 0]

BlankProfile ==
    [password |-> AccountPassword, currentPassword |-> "", newPassword |-> "",
     confirmPassword |-> "", toast |-> ""]

(***************************************************************************)
(* transactionService                                                      *)
(***************************************************************************)
\* the row createTransaction inserts for a new transaction t
TransactionRow(id, t) ==
    [id |-> id, type |-> t.type, category |-> t.category, amount |-> t.amount,
     date |-> t.date, note |-> t.note,
     payment_method |-> t.paymentMethod, card_id |-> t.cardId,
     credit_id |-> t.creditId, credit_history_id |-> t.creditHistoryId,
     credit_received_id |-> t.creditReceivedId,
     credit_received_history_id |-> t.creditReceivedHistoryId]

\* the Transaction a row is mapped to
ToTransaction(r) ==
    [id |-> r.id, type |-> r.type, category |-> r.category, amount |-> r.amount,
     date |-> r.date, note |-> r.note,
     paymentMethod |-> r.payment_method, cardId |-> r.card_id,
     creditId |-> r.credit_id, creditHistoryId |-> r.credit_history_id,
     creditReceivedId |-> r.credit_received_id,
     creditReceivedHistoryId |-> r.credit_received_history_id]

\* a Transaction without id; the fields a caller leaves out are undefined
NewTransaction(type, category, amount, date, note, pm, card) ==
    [type |-> type, category |-> category, amount |-> amount, date |-> date,
     note |-> note, paymentMethod |-> pm, cardId |-> card,
     creditId |-> NoId, creditHistoryId |-> NoId,
     creditReceivedId |-> NoId, creditReceivedHistoryId |-> NoId]

transactionService_getTransactions(d) == {ToTransaction(r) : r \in d.transactions}

transactionService_createTransaction(d, ids, t, fails) ==
    IF fails THEN [db |-> d, ok |-> FALSE]
    ELSE [db |-> [d EXCEPT !.transactions =
                        @ \cup {TransactionRow(ids.transactions, t)}],
          ok |-> TRUE,
          data |-> ToTransaction(TransactionRow(ids.transactions, t))]

transactionService_deleteTransaction(d, transactionId, fails) ==
    IF fails THEN [db |-> d, ok |-> FALSE]
    ELSE [db |-> [d EXCEPT !.transactions = {r \in @ : r.id # transactionId}],
          ok |-> TRUE]

\* a field of a Partial<Transaction> is undefined when it is left out
Given(updates, f) == f \in DOMAIN updates

\* an update that also writes the four back-reference columns
updateData_writesLinks(old, updates) ==
    [old EXCEPT
        !.amount = IF Given(updates, "amount") THEN updates.amount ELSE @,
        !.credit_id = IF Given(updates, "creditId")
                        THEN updates.creditId ELSE @,
        !.credit_history_id = IF Given(updates, "creditHistoryId")
                                THEN updates.creditHistoryId ELSE @,
        !.credit_received_id = IF Given(updates, "creditReceivedId")
                                THEN updates.creditReceivedId ELSE @,
        !.credit_received_history_id =
            IF Given(updates, "creditReceivedHistoryId")
                THEN updates.creditReceivedHistoryId ELSE @]

\* the columns updateTransaction writes: type, category and date when truthy,
\* amount and note when defined, payment_method and card_id when defined
\* (a Transaction read from the store has them undefined when they are
\* NULL); .single() makes it an error when no row has the id
updateData(old, updates) ==
    [old EXCEPT
        !.type = IF Given(updates, "type") /\ updates.type # ""
                    THEN updates.type ELSE @,
        !.category = IF Given(updates, "category") /\ updates.category # ""
                        THEN updates.category ELSE @,
        !.amount = IF Given(updates, "amount") THEN updates.amount ELSE @,
        !.date = IF Given(updates, "date") /\ updates.date # 0
                    THEN updates.date ELSE @,
        !.note = IF Given(updates, "note") THEN updates.note ELSE @,
        !.payment_method =
            IF Given(updates, "paymentMethod") /\ updates.paymentMethod # NoMethod
                THEN updates.paymentMethod ELSE @,
        !.card_id = IF Given(updates, "cardId") /\ updates.cardId # NoId
                        THEN updates.cardId ELSE @]

transactionService_updateTransaction(d, transactionId, updates, fails) ==
    LET found == {r \in d.transactions : r.id = transactionId}
        data == updateData(CHOOSE r \in found : TRUE, updates)
    IN  IF fails \/ found = {} THEN [db |-> d, ok |-> FALSE]
        ELSE [db |-> [d EXCEPT !.transactions = (@ \ found) \cup {data}],
              ok |-> TRUE, data |-> ToTransaction(data)]

(***************************************************************************)
(* categoryService                                                         *)
(***************************************************************************)
ToCategory(c) == [id |-> c.id, name |-> c.name, type |-> c.type]

categoryService_getCategories(d) == {ToCategory(c) : c \in d.categories}

categoryService_createCategory(d, ids, category, fails) ==
    LET row == [id |-> ids.categories, name |-> category.name,
                type |-> category.type]
    IN  IF fails \/ ~CategoriesUnique(d, row) THEN [db |-> d, ok |-> FALSE]
        ELSE [db |-> [d EXCEPT !.categories = @ \cup {row}],
              ok |-> TRUE, data |-> ToCategory(row)]

\* `updates` is the whole Category; .single() makes it an error when no row
\* has the id
categoryService_updateCategory(d, categoryId, updates, fails) ==
    LET found == {c \in d.categories : c.id = categoryId}
        row == [id |-> updates.id, name |-> updates.name, type |-> updates.type]
    IN  IF fails \/ found = {} \/ ~CategoriesUnique(d, row)
        THEN [db |-> d, ok |-> FALSE]
        ELSE [db |-> [d EXCEPT !.categories = (@ \ found) \cup {row}],
              ok |-> TRUE, data |-> ToCategory(row)]

\* null when the select fails or finds no row
categoryService_getCategory(d, categoryId, fails) ==
    LET found == {c \in d.categories : c.id = categoryId}
    IN  IF fails \/ found = {} THEN {}
        ELSE {ToCategory(CHOOSE c \in found : TRUE)}

\* the delete of the transactions does not look at its error
categoryService_deleteCategory(d, categoryId, failsGet, failsTransactions, failsCategory) ==
    LET category == categoryService_getCategory(d, categoryId, failsGet)
        d1 == IF category = {} \/ failsTransactions THEN d
              ELSE [d EXCEPT !.transactions =
                        {r \in @ : \A c \in category : r.category # c.name}]
    IN  IF failsCategory THEN [db |-> d1, ok |-> FALSE]
        ELSE [db |-> [d1 EXCEPT !.categories = {c \in @ : c.id # categoryId}],
              ok |-> TRUE]

(***************************************************************************)
(* cardService                                                             *)
(***************************************************************************)
cardService_getCards(d) == {[id |-> c.id] : c \in d.cards}

cardService_createCard(d, ids, fails) ==
    IF fails THEN [db |-> d, ok |-> FALSE]
    ELSE [db |-> [d EXCEPT !.cards = @ \cup {[id |-> ids.cards]}],
          ok |-> TRUE, data |-> [id |-> ids.cards]]

cardService_deleteCard(d, cardId, fails) ==
    IF fails THEN [db |-> d, ok |-> FALSE]
    ELSE [db |-> [d EXCEPT !.cards = {c \in @ : c.id # cardId}], ok |-> TRUE]

\* the transactions query throws on error; the credit_entries query does not
\* look at its error and reads `creditData` (null when the query failed)
cardService_isCardInUse(d, cardId, failsTransactions, failsCredit) ==
    IF failsTransactions THEN [ok |-> FALSE]
    ELSE IF \E r \in d.transactions : r.card_id = cardId
    THEN [ok |-> TRUE, value |-> TRUE]
    ELSE [ok |-> TRUE,
          value |-> IF failsCredit THEN FALSE
                    ELSE \E e \in d.credit_entries : e.initial_card_id = cardId]

(***************************************************************************)
(* creditService (credit lent)                                             *)
(***************************************************************************)
ToCreditHistoryItem(h) ==
    [id |-> h.id, date |-> h.date, amount |-> h.amount, type |-> h.type,
     paymentMethod |-> h.payment_method, cardId |-> h.card_id]

creditService_getCreditHistory(d, creditId) ==
    {ToCreditHistoryItem(h) : h \in {x \in d.credit_history : x.credit_id = creditId}}

\* a mapping that sums every history item, the given one included
ToCreditEntry_sumsAllHistory(e, history) ==
    [id |-> e.id, personName |-> e.person_name, amount |-> e.amount,
     givenDate |-> e.given_date, returnedAmount |-> SumAmounts(history),
     status |-> e.status, history |-> history,
     initialPaymentMethod |-> e.initial_payment_method,
     initialCardId |-> e.initial_card_id]

\* a mapping that derives the status itself and knows two of the three
ToCreditEntry_twoStatuses(e, history) ==
    [id |-> e.id, personName |-> e.person_name, amount |-> e.amount,
     givenDate |-> e.given_date, returnedAmount |-> e.returned_amount,
     status |-> IF e.returned_amount > 0 THEN "partially_returned" ELSE "active",
     history |-> history,
     initialPaymentMethod |-> e.initial_payment_method,
     initialCardId |-> e.initial_card_id]

ToCreditEntry(e, history) ==
    [id |-> e.id, personName |-> e.person_name, amount |-> e.amount,
     givenDate |-> e.given_date, returnedAmount |-> e.returned_amount,
     status |-> e.status, history |-> history,
     initialPaymentMethod |-> e.initial_payment_method,
     initialCardId |-> e.initial_card_id]

creditService_getCreditEntries(d) ==
    {ToCreditEntry(e, creditService_getCreditHistory(d, e.id)) : e \in d.credit_entries}

\* createCreditEntry whose transaction carries no creditHistoryId
creditService_createCreditEntry_noBackReference(d, ids, entry, now, failsAt) ==
    LET entryData ==
            [id |-> ids.credit_entries, person_name |-> entry.personName,
             amount |-> entry.amount, given_date |-> now,
             returned_amount |-> DefaultReturnedAmount, status |-> DefaultStatus,
             initial_payment_method |-> entry.initialPaymentMethod,
             initial_card_id |-> entry.initialCardId]
        d1 == [d EXCEPT !.credit_entries = @ \cup {entryData}]
        historyData ==
            [id |-> ids.credit_history, credit_id |-> entryData.id, date |-> now,
             amount |-> entry.amount, type |-> "given",
             payment_method |-> entry.initialPaymentMethod,
             card_id |-> entry.initialCardId]
        d2 == CreditHistoryTrigger(
                [d1 EXCEPT !.credit_history = @ \cup {historyData}])
        t ==  [type |-> "expense", category |-> "Credit", amount |-> entry.amount,
               date |-> now, note |-> <<"Credit given to", entry.personName>>,
               paymentMethod |-> entry.initialPaymentMethod,
               cardId |-> entry.initialCardId,
               creditId |-> entryData.id, creditHistoryId |-> NoId,
               creditReceivedId |-> NoId, creditReceivedHistoryId |-> NoId]
        r3 == transactionService_createTransaction(d2, ids, t, failsAt = 3)
    IN  IF failsAt = 1 THEN [db |-> d, ok |-> FALSE]
        ELSE IF failsAt = 2 \/ ~CanInsertCreditHistory(d1, entryData.id)
        THEN [db |-> d1, ok |-> FALSE]
        ELSE IF ~r3.ok THEN [db |-> d2, ok |-> FALSE]
        ELSE [db |-> r3.db, ok |-> TRUE,
              data |-> ToCreditEntry(entryData, {ToCreditHistoryItem(historyData)})]

\* failsAt: 0 no call fails, 1 the credit_entries insert, 2 the credit_history
\* insert, 3 the transactions insert
creditService_createCreditEntry(d, ids, entry, now, failsAt) ==
    LET entryData ==
            [id |-> ids.credit_entries, person_name |-> entry.personName,
             amount |-> entry.amount, given_date |-> now,
             returned_amount |-> DefaultReturnedAmount, status |-> DefaultStatus,
             initial_payment_method |-> entry.initialPaymentMethod,
             initial_card_id |-> entry.initialCardId]
        d1 == [d EXCEPT !.credit_entries = @ \cup {entryData}]
        historyData ==
            [id |-> ids.credit_history, credit_id |-> entryData.id, date |-> now,
             amount |-> entry.amount, type |-> "given",
             payment_method |-> entry.initialPaymentMethod,
             card_id |-> entry.initialCardId]
        d2 == CreditHistoryTrigger(
                [d1 EXCEPT !.credit_history = @ \cup {historyData}])
        t ==  [type |-> "expense", category |-> "Credit", amount |-> entry.amount,
               date |-> now, note |-> <<"Credit given to", entry.personName>>,
               paymentMethod |-> entry.initialPaymentMethod,
               cardId |-> entry.initialCardId,
               creditId |-> entryData.id, creditHistoryId |-> historyData.id,
               creditReceivedId |-> NoId, creditReceivedHistoryId |-> NoId]
        r3 == transactionService_createTransaction(d2, ids, t, failsAt = 3)
    IN  IF failsAt = 1 THEN [db |-> d, ok |-> FALSE]
        ELSE IF failsAt = 2 \/ ~CanInsertCreditHistory(d1, entryData.id)
        THEN [db |-> d1, ok |-> FALSE]
        ELSE IF ~r3.ok THEN [db |-> d2, ok |-> FALSE]
        ELSE [db |-> r3.db, ok |-> TRUE,
              data |-> ToCreditEntry(entryData, {ToCreditHistoryItem(historyData)})]

\* addCreditReturn whose transaction carries no creditHistoryId
creditService_addCreditReturn_noBackReference(d, ids, creditId, amount, paymentMethod, cardId, now, failsAt) ==
    LET historyData ==
            [id |-> ids.credit_history, credit_id |-> creditId, date |-> now,
             amount |-> amount,
             type |-> "returned", payment_method |-> paymentMethod,
             card_id |-> cardId]
        d1 == CreditHistoryTrigger(
                [d EXCEPT !.credit_history = @ \cup {historyData}])
        found == {e \in d1.credit_entries : e.id = creditId}
        creditData == CHOOSE e \in found : TRUE
        t ==  [type |-> "income", category |-> "Credit Return", amount |-> amount,
               date |-> now,
               note |-> <<"Credit return from", creditData.person_name>>,
               paymentMethod |-> paymentMethod, cardId |-> cardId,
               creditId |-> creditId, creditHistoryId |-> NoId,
               creditReceivedId |-> NoId, creditReceivedHistoryId |-> NoId]
        r3 == transactionService_createTransaction(d1, ids, t, failsAt = 3)
    IN  IF failsAt = 1 \/ ~CanInsertCreditHistory(d, creditId)
        THEN [db |-> d, ok |-> FALSE]
        ELSE IF failsAt = 2 \/ found = {}
        THEN [db |-> d1, ok |-> FALSE]
        ELSE IF ~r3.ok THEN [db |-> d1, ok |-> FALSE]
        ELSE [db |-> r3.db, ok |-> TRUE]

\* addCreditReturn that takes its history row back when a later step fails
creditService_addCreditReturn_rollsBack(d, ids, creditId, amount, paymentMethod, cardId, now, failsAt) ==
    LET historyData ==
            [id |-> ids.credit_history, credit_id |-> creditId, date |-> now,
             amount |-> amount,
             type |-> "returned", payment_method |-> paymentMethod,
             card_id |-> cardId]
        d1 == CreditHistoryTrigger(
                [d EXCEPT !.credit_history = @ \cup {historyData}])
        found == {e \in d1.credit_entries : e.id = creditId}
        creditData == CHOOSE e \in found : TRUE
        t ==  [type |-> "income", category |-> "Credit Return", amount |-> amount,
               date |-> now,
               note |-> <<"Credit return from", creditData.person_name>>,
               paymentMethod |-> paymentMethod, cardId |-> cardId,
               creditId |-> creditId, creditHistoryId |-> historyData.id,
               creditReceivedId |-> NoId, creditReceivedHistoryId |-> NoId]
        r3 == transactionService_createTransaction(d1, ids, t, failsAt = 3)
    IN  IF failsAt = 1 \/ ~CanInsertCreditHistory(d, creditId)
        THEN [db |-> d, ok |-> FALSE]
        ELSE IF failsAt = 2 \/ found = {}
        THEN [db |-> d, ok |-> FALSE]
        ELSE IF ~r3.ok THEN [db |-> d, ok |-> FALSE]
        ELSE [db |-> r3.db, ok |-> TRUE]

\* failsAt: 1 the credit_history insert, 2 the credit_entries select,
\* 3 the transactions insert
creditService_addCreditReturn(d, ids, creditId, amount, paymentMethod, cardId, now, failsAt) ==
    LET historyData ==
            [id |-> ids.credit_history, credit_id |-> creditId, date |-> now,
             amount |-> amount,
             type |-> "returned", payment_method |-> paymentMethod,
             card_id |-> cardId]
        d1 == CreditHistoryTrigger(
                [d EXCEPT !.credit_history = @ \cup {historyData}])
        found == {e \in d1.credit_entries : e.id = creditId}
        creditData == CHOOSE e \in found : TRUE
        t ==  [type |-> "income", category |-> "Credit Return", amount |-> amount,
               date |-> now,
               note |-> <<"Credit return from", creditData.person_name>>,
               paymentMethod |-> paymentMethod, cardId |-> cardId,
               creditId |-> creditId, creditHistoryId |-> historyData.id,
               creditReceivedId |-> NoId, creditReceivedHistoryId |-> NoId]
        r3 == transactionService_createTransaction(d1, ids, t, failsAt = 3)
    IN  IF failsAt = 1 \/ ~CanInsertCreditHistory(d, creditId)
        THEN [db |-> d, ok |-> FALSE]
        ELSE IF failsAt = 2 \/ found = {}
        THEN [db |-> d1, ok |-> FALSE]
        ELSE IF ~r3.ok THEN [db |-> d1, ok |-> FALSE]
        ELSE [db |-> r3.db, ok |-> TRUE]

\* the two dependent deletes do not look at their error
creditService_deleteCreditEntry(d, creditId, failsTransactions, failsHistory, failsEntry) ==
    LET d1 == IF failsTransactions THEN d
              ELSE [d EXCEPT !.transactions = {r \in @ : r.credit_id # creditId}]
        d2 == IF failsHistory THEN d1
              ELSE CreditHistoryTrigger(
                    [d1 EXCEPT !.credit_history = {h \in @ : h.credit_id # creditId}])
        d3 == CascadeCreditHistory(
                [d2 EXCEPT !.credit_entries = {e \in @ : e.id # creditId}], creditId)
    IN  IF failsEntry THEN [db |-> d2, ok |-> FALSE]
        ELSE [db |-> d3, ok |-> TRUE]

(***************************************************************************)
(* creditReceivedService                                                   *)
(***************************************************************************)
ToCreditReceivedHistoryItem(h) ==
    [id |-> h.id, date |-> h.date, amount |-> h.amount,
     paymentMethod |-> h.payment_method, cardId |-> h.card_id]

creditReceivedService_getCreditReceivedHistory(d, creditReceivedId) ==
    {ToCreditReceivedHistoryItem(h) :
        h \in {x \in d.credit_received_history : x.credit_received_id = creditReceivedId}}

ToCreditReceivedEntry(e, history) ==
    [id |-> e.id, personName |-> e.person_name, amount |-> e.amount,
     receivedDate |-> e.received_date, returnedAmount |-> e.returned_amount,
     status |-> e.status, history |-> history,
     initialPaymentMethod |-> e.initial_payment_method,
     initialCardId |-> e.initial_card_id]

creditReceivedService_getCreditReceivedEntries(d) ==
    {ToCreditReceivedEntry(e, creditReceivedService_getCreditReceivedHistory(d, e.id)) :
        e \in d.credit_received}

\* failsAt: 1 the credit_received insert, 2 the transactions insert
creditReceivedService_createCreditReceivedEntry(d, ids, entry, now, failsAt) ==
    LET entryData ==
            [id |-> ids.credit_received, person_name |-> entry.personName,
             amount |-> entry.amount, received_date |-> now,
             returned_amount |-> DefaultReturnedAmount, status |-> DefaultStatus,
             initial_payment_method |-> entry.initialPaymentMethod,
             initial_card_id |-> entry.initialCardId]
        d1 == [d EXCEPT !.credit_received = @ \cup {entryData}]
        t ==  [type |-> "income", category |-> "Credit Received",
               amount |-> entry.amount, date |-> now,
               note |-> <<"Credit received from", entry.personName>>,
               paymentMethod |-> NoMethod, cardId |-> entry.initialCardId,
               creditId |-> NoId, creditHistoryId |-> NoId,
               creditReceivedId |-> entryData.id, creditReceivedHistoryId |-> NoId]
        r2 == transactionService_createTransaction(d1, ids, t, failsAt = 2)
    IN  IF failsAt = 1 THEN [db |-> d, ok |-> FALSE]
        ELSE IF ~r2.ok THEN [db |-> d1, ok |-> FALSE]
        ELSE [db |-> r2.db, ok |-> TRUE,
              data |-> ToCreditReceivedEntry(entryData, {})]

\* addCreditReceivedReturn that records the repayment as income
creditReceivedService_addCreditReceivedReturn_incomePolarity(d, ids, entryId, amount, paymentMethod, cardId, now, failsAt) ==
    LET historyData ==
            [id |-> ids.credit_received_history, credit_received_id |-> entryId,
             date |-> now,
             amount |-> amount, payment_method |-> paymentMethod,
             card_id |-> cardId]
        d1 == CreditReceivedHistoryTrigger(
                [d EXCEPT !.credit_received_history = @ \cup {historyData}])
        found == {e \in d1.credit_received : e.id = entryId}
        creditData == CHOOSE e \in found : TRUE
        t ==  [type |-> "income", category |-> "Credit Return Paid",
               amount |-> amount, date |-> now,
               note |-> <<"Repayment to", creditData.person_name>>,
               paymentMethod |-> paymentMethod, cardId |-> cardId,
               creditId |-> NoId, creditHistoryId |-> NoId,
               creditReceivedId |-> entryId,
               creditReceivedHistoryId |-> historyData.id]
        r3 == transactionService_createTransaction(d1, ids, t, failsAt = 3)
    IN  IF failsAt = 1 \/ ~CanInsertCreditReceivedHistory(d, entryId)
        THEN [db |-> d, ok |-> FALSE]
        ELSE IF failsAt = 2 \/ found = {}
        THEN [db |-> d1, ok |-> FALSE]
        ELSE IF ~r3.ok THEN [db |-> d1, ok |-> FALSE]
        ELSE [db |-> r3.db, ok |-> TRUE]

\* failsAt: 1 the credit_received_history insert, 2 the credit_received
\* select, 3 the transactions insert
creditReceivedService_addCreditReceivedReturn(d, ids, entryId, amount, paymentMethod, cardId, now, failsAt) ==
    LET historyData ==
            [id |-> ids.credit_received_history, credit_received_id |-> entryId,
             date |-> now,
             amount |-> amount, payment_method |-> paymentMethod,
             card_id |-> cardId]
        d1 == CreditReceivedHistoryTrigger(
                [d EXCEPT !.credit_received_history = @ \cup {historyData}])
        found == {e \in d1.credit_received : e.id = entryId}
        creditData == CHOOSE e \in found : TRUE
        t ==  [type |-> "expense", category |-> "Credit Return Paid",
               amount |-> amount, date |-> now,
               note |-> <<"Repayment to", creditData.person_name>>,
               paymentMethod |-> paymentMethod, cardId |-> cardId,
               creditId |-> NoId, creditHistoryId |-> NoId,
               creditReceivedId |-> entryId,
               creditReceivedHistoryId |-> historyData.id]
        r3 == transactionService_createTransaction(d1, ids, t, failsAt = 3)
    IN  IF failsAt = 1 \/ ~CanInsertCreditReceivedHistory(d, entryId)
        THEN [db |-> d, ok |-> FALSE]
        ELSE IF failsAt = 2 \/ found = {}
        THEN [db |-> d1, ok |-> FALSE]
        ELSE IF ~r3.ok THEN [db |-> d1, ok |-> FALSE]
        ELSE [db |-> r3.db, ok |-> TRUE]

\* the two dependent deletes do not look at their error
creditReceivedService_deleteCreditReceivedEntry(d, entryId, failsTransactions, failsHistory, failsEntry) ==
    LET d1 == IF failsTransactions THEN d
              ELSE [d EXCEPT !.transactions =
                        {r \in @ : r.credit_received_id # entryId}]
        d2 == IF failsHistory THEN d1
              ELSE CreditReceivedHistoryTrigger(
                    [d1 EXCEPT !.credit_received_history =
                        {h \in @ : h.credit_received_id # entryId}])
        d3 == CascadeCreditReceivedHistory(
                [d2 EXCEPT !.credit_received = {e \in @ : e.id # entryId}], entryId)
    IN  IF failsEntry THEN [db |-> d2, ok |-> FALSE]
        ELSE [db |-> d3, ok |-> TRUE]

\* the select of the history row throws when it fails or finds no row; the
\* delete of the transaction does not look at its error
creditReceivedService_deleteCreditReceivedReturnHistory(d, entryId, historyId, failsSelect, failsTransaction, failsHistory) ==
    LET found == {h \in d.credit_received_history : h.id = historyId}
        d1 == IF failsTransaction THEN d
              ELSE [d EXCEPT !.transactions =
                        {r \in @ : r.credit_received_history_id # historyId}]
        d2 == CreditReceivedHistoryTrigger(
                [d1 EXCEPT !.credit_received_history = {h \in @ : h.id # historyId}])
    IN  IF failsSelect \/ found = {} THEN [db |-> d, ok |-> FALSE]
        ELSE IF failsHistory THEN [db |-> d1, ok |-> FALSE]
        ELSE [db |-> d2, ok |-> TRUE]

(***************************************************************************)
(* DataContext.  A handler is an operator from the state and its inputs to *)
(* the state it leaves and whether its promise resolved (ok) or rejected;  *)
(* the action of the same name takes that step.                            *)
(***************************************************************************)
\* the reads are joined: when one of them fails no collection is set
loadAllData(d, c, fails) ==
    IF fails THEN c
    ELSE [transactions |-> transactionService_getTransactions(d),
          categories |-> categoryService_getCategories(d),
          cards |-> cardService_getCards(d),
          creditEntries |-> creditService_getCreditEntries(d),
          creditReceivedEntries |->
              creditReceivedService_getCreditReceivedEntries(d)]

refreshData(d, c, fails) == loadAllData(d, c, fails)

EmptyStore ==
    [transactions |-> {}, cards |-> {}, credit_entries |-> {},
     credit_history |-> {}, credit_received |-> {},
     credit_received_history |-> {}, categories |-> {}]

Result(ok, d, c) == [ok |-> ok, db |-> d, cache |-> c]

\* `if (!userId) throw new Error('User not authenticated')`
NotAuthenticated == Result(FALSE, db, cache)

\* a handler without that check issues its calls also when nobody is signed
\* in: auth.uid() is NULL then, the policies show the call no row and it
\* changes none
Visible(d) == IF userId = NoUser THEN EmptyStore ELSE d
AsSession(r) == IF userId = NoUser THEN [r EXCEPT !.db = db] ELSE r

Ids(rows) == {r.id : r \in rows}

\* the handler's step; every row it inserted has used up an id.  A handler
\* without refreshData does not touch the loading flag, and a refreshData
\* sets it and ends with it false, as it is whenever no loadAllData runs.
Step(r) ==
    /\ db' = r.db
    /\ cache' = r.cache
    /\ nextId' = [t \in Tables |->
                    nextId[t] + Cardinality(Ids(r.db[t]) \ Ids(db[t]))]
    /\ UNCHANGED loader
    /\ UNCHANGED balanceVars
    /\ UNCHANGED pageVars
    /\ UNCHANGED loading

\* the payment sources a form offers: cash, or one of the cached cards
PaymentChoices ==
    {[paymentMethod |-> "cash", cardId |-> NoId]}
        \cup {[paymentMethod |-> "card", cardId |-> c.id] : c \in cache.cards}

\* `new Date()`: the clock has advanced with every row the store inserted
Now ==
    1 + nextId.transactions + nextId.cards + nextId.credit_entries
      + nextId.credit_history + nextId.credit_received
      + nextId.credit_received_history

Plain(r) ==
    /\ r.credit_id = NoId /\ r.credit_history_id = NoId
    /\ r.credit_received_id = NoId /\ r.credit_received_history_id = NoId

run_addTransaction(newTransaction, fails) ==
    IF userId = NoUser THEN NotAuthenticated ELSE
    LET r == transactionService_createTransaction(db, NewIds, newTransaction, fails)
    IN  IF r.ok
        THEN Result(TRUE, r.db,
                    [cache EXCEPT !.transactions = {r.data} \cup @])
        ELSE Result(FALSE, r.db, cache)

addTransaction(newTransaction, fails) ==
    Step(run_addTransaction(newTransaction, fails))

run_deleteTransaction(id, fails) ==
    LET r == AsSession(transactionService_deleteTransaction(Visible(db), id, fails))
    IN  IF r.ok
        THEN Result(TRUE, r.db,
                    [cache EXCEPT !.transactions = {t \in @ : t.id # id}])
        ELSE Result(FALSE, r.db, cache)

deleteTransaction(id, fails) == Step(run_deleteTransaction(id, fails))

\* the whole Transaction goes to the service as `updates`
run_updateTransaction(updated, fails) ==
    LET r == AsSession(transactionService_updateTransaction(
                    Visible(db), updated.id, updated, fails))
    IN  IF r.ok
        THEN Result(TRUE, r.db,
                    [cache EXCEPT !.transactions =
                        {IF t.id = r.data.id THEN r.data ELSE t : t \in @}])
        ELSE Result(FALSE, r.db, cache)

updateTransaction(updated, fails) == Step(run_updateTransaction(updated, fails))

run_addCard(fails) ==
    IF userId = NoUser THEN NotAuthenticated ELSE
    LET r == cardService_createCard(db, NewIds, fails)
    IN  IF r.ok
        THEN Result(TRUE, r.db, [cache EXCEPT !.cards = @ \cup {r.data}])
        ELSE Result(FALSE, r.db, cache)

addCard(fails) == Step(run_addCard(fails))

run_deleteCard(id, failsTransactions, failsCredit, failsDelete) ==
    IF userId = NoUser THEN NotAuthenticated ELSE
    LET isInUse == cardService_isCardInUse(db, id, failsTransactions, failsCredit)
        r == cardService_deleteCard(db, id, failsDelete)
    IN  IF ~isInUse.ok THEN Result(FALSE, db, cache)
        ELSE IF isInUse.value THEN Result(FALSE, db, cache)
        ELSE IF ~r.ok THEN Result(FALSE, r.db, cache)
        ELSE Result(TRUE, r.db,
                    [cache EXCEPT !.cards = {c \in @ : c.id # id}])

deleteCard(id, failsTransactions, failsCredit, failsDelete) ==
    Step(run_deleteCard(id, failsTransactions, failsCredit, failsDelete))

run_addCreditEntry(newEntry, failsAt, failsRefresh) ==
    IF userId = NoUser THEN NotAuthenticated ELSE
    LET r == creditService_createCreditEntry(db, NewIds, newEntry, Now, failsAt)
    IN  IF r.ok
        THEN Result(TRUE, r.db,
                    refreshData(r.db,
                        [cache EXCEPT !.creditEntries = {r.data} \cup @],
                        failsRefresh))
        ELSE Result(FALSE, r.db, cache)

addCreditEntry(newEntry, failsAt, failsRefresh) ==
    Step(run_addCreditEntry(newEntry, failsAt, failsRefresh))

run_addCreditReturn(creditId, returnAmount, paymentMethod, cardId, failsAt, failsRefresh) ==
    IF userId = NoUser THEN NotAuthenticated ELSE
    LET r == creditService_addCreditReturn(db, NewIds, creditId, returnAmount,
                paymentMethod, cardId, Now, failsAt)
    IN  IF r.ok
        THEN Result(TRUE, r.db, refreshData(r.db, cache, failsRefresh))
        ELSE Result(FALSE, r.db, cache)

addCreditReturn(creditId, returnAmount, paymentMethod, cardId, failsAt, failsRefresh) ==
    Step(run_addCreditReturn(creditId, returnAmount, paymentMethod, cardId,
                             failsAt, failsRefresh))

run_deleteCreditEntry(id, failsTransactions, failsHistory, failsEntry, failsRefresh) ==
    IF userId = NoUser THEN NotAuthenticated ELSE
    LET r == creditService_deleteCreditEntry(db, id, failsTransactions,
                failsHistory, failsEntry)
    IN  IF r.ok
        THEN Result(TRUE, r.db,
                    refreshData(r.db,
                        [cache EXCEPT !.creditEntries = {e \in @ : e.id # id}],
                        failsRefresh))
        ELSE Result(FALSE, r.db, cache)

deleteCreditEntry(id, failsTransactions, failsHistory, failsEntry, failsRefresh) ==
    Step(run_deleteCreditEntry(id, failsTransactions, failsHistory, failsEntry,
                               failsRefresh))

run_addCreditReceivedEntry(newEntry, failsAt, failsRefresh) ==
    IF userId = NoUser THEN NotAuthenticated ELSE
    LET r == creditReceivedService_createCreditReceivedEntry(db, NewIds, newEntry,
                Now, failsAt)
    IN  IF r.ok
        THEN Result(TRUE, r.db,
                    refreshData(r.db,
                        [cache EXCEPT !.creditReceivedEntries = {r.data} \cup @],
                        failsRefresh))
        ELSE Result(FALSE, r.db, cache)

addCreditReceivedEntry(newEntry, failsAt, failsRefresh) ==
    Step(run_addCreditReceivedEntry(newEntry, failsAt, failsRefresh))

run_addCreditReceivedReturn(entryId, returnAmount, paymentMethod, cardId, failsAt, failsRefresh) ==
    IF userId = NoUser THEN NotAuthenticated ELSE
    LET r == creditReceivedService_addCreditReceivedReturn(db, NewIds, entryId,
                returnAmount, paymentMethod, cardId, Now, failsAt)
    IN  IF r.ok
        THEN Result(TRUE, r.db, refreshData(r.db, cache, failsRefresh))
        ELSE Result(FALSE, r.db, cache)

addCreditReceivedReturn(entryId, returnAmount, paymentMethod, cardId, failsAt, failsRefresh) ==
    Step(run_addCreditReceivedReturn(entryId, returnAmount, paymentMethod,
                                     cardId, failsAt, failsRefresh))

run_deleteCreditReceivedEntry(id, failsTransactions, failsHistory, failsEntry, failsRefresh) ==
    IF userId = NoUser THEN NotAuthenticated ELSE
    LET r == creditReceivedService_deleteCreditReceivedEntry(db, id,
                failsTransactions, failsHistory, failsEntry)
    IN  IF r.ok
        THEN Result(TRUE, r.db,
                    refreshData(r.db,
                        [cache EXCEPT !.creditReceivedEntries =
                            {e \in @ : e.id # id}],
                        failsRefresh))
        ELSE Result(FALSE, r.db, cache)

deleteCreditReceivedEntry(id, failsTransactions, failsHistory, failsEntry, failsRefresh) ==
    Step(run_deleteCreditReceivedEntry(id, failsTransactions, failsHistory,
                                       failsEntry, failsRefresh))

run_deleteCreditReceivedReturnHistory(entryId, historyId, failsSelect, failsTransaction, failsHistory, failsRefresh) ==
    IF userId = NoUser THEN NotAuthenticated ELSE
    LET r == creditReceivedService_deleteCreditReceivedReturnHistory(db, entryId,
                historyId, failsSelect, failsTransaction, failsHistory)
    IN  IF r.ok
        THEN Result(TRUE, r.db, refreshData(r.db, cache, failsRefresh))
        ELSE Result(FALSE, r.db, cache)

deleteCreditReceivedReturnHistory(entryId, historyId, failsSelect, failsTransaction, failsHistory, failsRefresh) ==
    Step(run_deleteCreditReceivedReturnHistory(entryId, historyId, failsSelect,
            failsTransaction, failsHistory, failsRefresh))

\* String.prototype.toLowerCase on the names a category is given
LowerCase ==
    [n \in {"Food", "food", "Salary"} |->
        IF n = "Salary" THEN "salary" ELSE "food"]

\* a duplicate check that compares the names as they are written
run_addCategory_sameCase(newCategory, fails) ==
    IF userId = NoUser THEN NotAuthenticated ELSE
    LET exists == \E c \in cache.categories :
                    /\ c.name = newCategory.name
                    /\ c.type = newCategory.type
        r == categoryService_createCategory(db, NewIds, newCategory, fails)
    IN  IF exists THEN Result(FALSE, db, cache)
        ELSE IF ~r.ok THEN Result(FALSE, r.db, cache)
        ELSE Result(TRUE, r.db, [cache EXCEPT !.categories = @ \cup {r.data}])

run_addCategory(newCategory, fails) ==
    IF userId = NoUser THEN NotAuthenticated ELSE
    LET exists == \E c \in cache.categories :
                    /\ LowerCase[c.name] = LowerCase[newCategory.name]
                    /\ c.type = newCategory.type
        r == categoryService_createCategory(db, NewIds, newCategory, fails)
    IN  IF exists THEN Result(FALSE, db, cache)
        ELSE IF ~r.ok THEN Result(FALSE, r.db, cache)
        ELSE Result(TRUE, r.db, [cache EXCEPT !.categories = @ \cup {r.data}])

addCategory(newCategory, fails) == Step(run_addCategory(newCategory, fails))

run_deleteCategory(id, failsGet, failsTransactions, failsCategory) ==
    IF userId = NoUser THEN NotAuthenticated ELSE
    LET r == categoryService_deleteCategory(db, id, failsGet, failsTransactions,
                failsCategory)
        categoryToDelete == {c \in cache.categories : c.id = id}
    IN  IF ~r.ok THEN Result(FALSE, r.db, cache)
        ELSE Result(TRUE, r.db,
                [cache EXCEPT
                    !.categories = {c \in @ : c.id # id},
                    !.transactions =
                        {t \in @ : \A c \in categoryToDelete :
                                        t.category # c.name}])

deleteCategory(id, failsGet, failsTransactions, failsCategory) ==
    Step(run_deleteCategory(id, failsGet, failsTransactions, failsCategory))

\* the cached transactions in the order of the list: newest first
RECURSIVE NewestFirst(_)
NewestFirst(S) ==
    IF S = {} THEN <<>>
    ELSE LET t == CHOOSE x \in S : \A y \in S :
                    y.date < x.date \/ (y.date = x.date /\ y.id <= x.id)
         IN  <<t>> \o NewestFirst(S \ {t})

\* `for (const t of ...) await updateTransaction(t.id, {category})` from the
\* i-th transaction on; the failsAt-th call fails, the first error ends the loop
RECURSIVE renameTransactions(_, _, _, _, _)
renameTransactions(d, todo, i, name, failsAt) ==
    IF i > Len(todo) THEN [db |-> d, ok |-> TRUE]
    ELSE LET r == transactionService_updateTransaction(d, todo[i].id,
                        [category |-> name], failsAt = i)
         IN  IF r.ok THEN renameTransactions(r.db, todo, i + 1, name, failsAt)
             ELSE [db |-> r.db, ok |-> FALSE]

run_updateCategory(updated, failsCategory, failsAt) ==
    LET oldCategory == {c \in cache.categories : c.id = updated.id}
        r == AsSession(categoryService_updateCategory(
                    Visible(db), updated.id, updated, failsCategory))
        renamed == \E c \in oldCategory : c.name # updated.name
        updatedTransactions ==
            {IF \E c \in oldCategory : t.category = c.name
                THEN [t EXCEPT !.category = updated.name] ELSE t :
                t \in cache.transactions}
        loop == renameTransactions(r.db,
                    NewestFirst({t \in updatedTransactions :
                                    t.category = updated.name}),
                    1, updated.name, failsAt)
        categories == {IF c.id = r.data.id THEN r.data ELSE c :
                            c \in cache.categories}
    IN  IF ~r.ok THEN Result(FALSE, r.db, cache)
        ELSE IF ~renamed
        THEN Result(TRUE, r.db, [cache EXCEPT !.categories = categories])
        ELSE IF ~loop.ok
        THEN Result(FALSE, loop.db,
                    [cache EXCEPT !.transactions = updatedTransactions])
        ELSE Result(TRUE, loop.db,
                    [cache EXCEPT !.transactions = updatedTransactions,
                                  !.categories = categories])

updateCategory(updated, failsCategory, failsAt) ==
    Step(run_updateCategory(updated, failsCategory, failsAt))

(***************************************************************************)
(* Startup.  initializeAuth and the onAuthStateChange callback each start  *)
(* a loadAllData; a run is at its joined reads ("read"), in the loop that  *)
(* creates the default categories ("seed", before the i-th) or finished.   *)
(* The reload after the loop is the same function from its start.          *)
(***************************************************************************)
Loaders == {"initializeAuth", "onAuthStateChange"}

\* the defaults a user without categories is given
dummyCategories ==
    <<[name |-> "Food", type |-> "expense"],
      [name |-> "Salary", type |-> "income"]>>

Idle == \A l \in Loaders : loader[l].pc = "done"

\* a run whose finally block is skipped
finally_skipped(pc, flag) == flag

\* the finally block of loadAllData: the run that ends sets the flag to false
finally(pc, flag) == IF pc = "done" THEN FALSE ELSE flag

\* setLoading(true), the joined reads and the five setX; an error is logged
\* and ends the run, and the end of a run is setLoading(false)
loadAllData_read(l, fails) ==
    /\ loader[l].pc = "read"
    /\ cache' = loadAllData(db, cache, fails)
    /\ loader' = [loader EXCEPT ![l] =
            IF ~fails /\ categoryService_getCategories(db) = {}
            THEN [pc |-> "seed", i |-> 1]
            ELSE [pc |-> "done", i |-> 0]]
    /\ loading' = finally(loader'[l].pc, TRUE)
    /\ UNCHANGED <<db, nextId, balanceVars, pageVars>>

\* one createCategory of the loop; an error is logged and ends the run
loadAllData_seed(l, fails) ==
    /\ loader[l].pc = "seed"
    /\ LET r == categoryService_createCategory(db, NewIds,
                    dummyCategories[loader[l].i], fails)
       IN  /\ db' = r.db
           /\ nextId' = [nextId EXCEPT !.categories =
                            IF r.ok THEN @ + 1 ELSE @]
           /\ loader' = [loader EXCEPT ![l] =
                    IF ~r.ok THEN [pc |-> "done", i |-> 0]
                    ELSE IF loader[l].i < Len(dummyCategories)
                    THEN [pc |-> "seed", i |-> loader[l].i + 1]
                    ELSE [pc |-> "read", i |-> 0]]
    /\ loading' = finally(loader'[l].pc, loading)
    /\ UNCHANGED <<cache, balanceVars, pageVars>>

(***************************************************************************)
(* The ledger specification: a signed-in user after startup, with the      *)
(* default categories and nothing else.                                    *)
(***************************************************************************)
EmptyCache ==
    [transactions |-> {}, categories |-> {}, cards |-> {}, creditEntries |-> {},
     creditReceivedEntries |-> {}]

\* the account after startup: the default categories, read into the cache
SeededStore ==
    [EmptyStore EXCEPT !.categories =
        {[id |-> IdBase.categories + i, name |-> dummyCategories[i].name,
          type |-> dummyCategories[i].type] : i \in DOMAIN dummyCategories}]

SeededCache ==
    [EmptyCache EXCEPT !.categories = categoryService_getCategories(SeededStore)]

StartupDone == [l \in Loaders |-> [pc |-> "done", i |-> 0]]

\* a user is signed in, no service call is in flight, the shared store is
\* empty and the password form is blank
InitPages ==
    /\ userId = User
    /\ tasks = {}
    /\ reset = ResetIdle
    /\ tenantDb = EmptyTenantDb
    /\ profile = BlankProfile
    /\ loading = ~Idle

InitBalanceIdle ==
    /\ bCards = {}
    /\ bTransactions = <<>>
    /\ bBalances = <<>>

Init ==
    /\ db = SeededStore
    /\ nextId = [t \in Tables |->
                    IF t = "categories" THEN Len(dummyCategories) ELSE 0]
    /\ cache = SeededCache
    /\ loader = StartupDone
    /\ InitBalanceIdle
    /\ InitPages

\* the inputs of the handlers
PlainTransactions ==
    {NewTransaction(type, "Food", amount, Now, <<>>, pay.paymentMethod, pay.cardId) :
        type \in {"income", "expense"}, amount \in PlainAmounts,
        pay \in PaymentChoices}

NewEntries ==
    {[personName |-> person, amount |-> amount,
      initialPaymentMethod |-> pay.paymentMethod, initialCardId |-> pay.cardId] :
        person \in People, amount \in EntryAmounts, pay \in PaymentChoices}

\* the ids the store has given out in a table: a page opened for an entry
\* keeps its id also after the entry is gone
IssuedIds(t) == (IdBase[t] + 1)..(IdBase[t] + nextId[t])

\* room left under the bounds for the rows a handler inserts
Room(transactions, entries, history) ==
    /\ nextId.transactions + transactions <= MaxTransactions
    /\ nextId.credit_entries + nextId.credit_received + entries <= MaxEntries
    /\ nextId.credit_history + nextId.credit_received_history + history
            <= MaxHistory

Next ==
    \/ \E t \in PlainTransactions, fails \in BOOLEAN :
            /\ Room(1, 0, 0)
            /\ Cardinality({r \in db.transactions : Plain(r)}) < MaxPlain
            /\ addTransaction(t, fails)
    \/ \E t \in cache.transactions, fails \in BOOLEAN :
            deleteTransaction(t.id, fails)
    \/ \E fails \in BOOLEAN :
            /\ nextId.cards < MaxCards
            /\ addCard(fails)
    \/ \E c \in cache.cards, f1 \in BOOLEAN, f2 \in BOOLEAN, f3 \in BOOLEAN :
            deleteCard(c.id, f1, f2, f3)
    \/ \E e \in NewEntries, failsAt \in 0..3, failsRefresh \in BOOLEAN :
            /\ Room(1, 1, 1)
            /\ addCreditEntry(e, failsAt, failsRefresh)
    \/ \E e \in cache.creditEntries, amount \in LedgerAmounts,
          pay \in PaymentChoices, failsAt \in 0..3, failsRefresh \in BOOLEAN :
            /\ Room(1, 0, 1)
            /\ addCreditReturn(e.id, amount, pay.paymentMethod, pay.cardId,
                               failsAt, failsRefresh)
    \/ \E e \in cache.creditEntries, f1 \in BOOLEAN, f2 \in BOOLEAN,
          f3 \in BOOLEAN, failsRefresh \in BOOLEAN :
            deleteCreditEntry(e.id, f1, f2, f3, failsRefresh)
    \/ \E e \in NewEntries, failsAt \in 0..2, failsRefresh \in BOOLEAN :
            /\ Room(1, 1, 0)
            /\ addCreditReceivedEntry(e, failsAt, failsRefresh)
    \/ \E e \in cache.creditReceivedEntries, amount \in LedgerAmounts,
          pay \in PaymentChoices, failsAt \in 0..3, failsRefresh \in BOOLEAN :
            /\ Room(1, 0, 1)
            /\ addCreditReceivedReturn(e.id, amount, pay.paymentMethod, pay.cardId,
                                       failsAt, failsRefresh)
    \/ \E e \in cache.creditReceivedEntries, f1 \in BOOLEAN, f2 \in BOOLEAN,
          f3 \in BOOLEAN, failsRefresh \in BOOLEAN :
            deleteCreditReceivedEntry(e.id, f1, f2, f3, failsRefresh)
    \/ \E e \in cache.creditReceivedEntries, f1 \in BOOLEAN, f2 \in BOOLEAN,
          f3 \in BOOLEAN, failsRefresh \in BOOLEAN :
            \E h \in e.history :
                deleteCreditReceivedReturnHistory(e.id, h.id, f1, f2, f3, failsRefresh)

Spec == Init /\ [][Next]_vars

(***************************************************************************)
(* The credit specification: entries are created and repaid, repayments of *)
(* received credit are deleted; more entries and repayments than the       *)
(* ledger specification has room for.                                      *)
(***************************************************************************)
CreditMaxEntries == 1
CreditMaxReceived == 1
CreditMaxReturns == 2
CreditMaxReceivedHistory == 2
\* repayments of both kinds together
CreditMaxRepayments == 3

CreditReturns == Cardinality({h \in db.credit_history : h.type = "returned"})

NextCredit ==
    \/ \E e \in NewEntries, failsAt \in 0..3, failsRefresh \in BOOLEAN :
            /\ nextId.credit_entries < CreditMaxEntries
            /\ addCreditEntry(e, failsAt, failsRefresh)
    \/ \E e \in cache.creditEntries, amount \in ReturnAmounts,
          pay \in PaymentChoices, failsAt \in 0..3, failsRefresh \in BOOLEAN :
            /\ CreditReturns < CreditMaxReturns
            /\ CreditReturns + nextId.credit_received_history < CreditMaxRepayments
            /\ addCreditReturn(e.id, amount, pay.paymentMethod, pay.cardId,
                               failsAt, failsRefresh)
    \/ \E e \in NewEntries, failsAt \in 0..2, failsRefresh \in BOOLEAN :
            /\ nextId.credit_received < CreditMaxReceived
            /\ addCreditReceivedEntry(e, failsAt, failsRefresh)
    \/ \E e \in cache.creditReceivedEntries, amount \in ReturnAmounts,
          pay \in PaymentChoices, failsAt \in 0..3, failsRefresh \in BOOLEAN :
            /\ nextId.credit_received_history < CreditMaxReceivedHistory
            /\ CreditReturns + nextId.credit_received_history < CreditMaxRepayments
            /\ addCreditReceivedReturn(e.id, amount, pay.paymentMethod, pay.cardId,
                                       failsAt, failsRefresh)
    \/ \E e \in cache.creditReceivedEntries, f1 \in BOOLEAN, f2 \in BOOLEAN,
          f3 \in BOOLEAN, failsRefresh \in BOOLEAN :
            \E h \in e.history :
                deleteCreditReceivedReturnHistory(e.id, h.id, f1, f2, f3, failsRefresh)

SpecCredit == Init /\ [][NextCredit]_vars

(***************************************************************************)
(* The return specification: an entry lent and an entry received are       *)
(* created, repaid, edited in the transaction list and deleted; a return   *)
(* can be recorded from a page that still holds the id of an entry.        *)
(***************************************************************************)
ReturnMaxEntries == 1
ReturnMaxReceived == 1
\* history rows the store ever inserts (of both kinds together)
ReturnMaxHistory == 2

HistoryIssued == nextId.credit_history + nextId.credit_received_history

\* what the edit form can hand to updateTransaction for a cached
\* transaction: another amount, and any value in the back-reference fields
EditedAmounts == {50}
LinkChoices(t) ==
    {[creditId |-> t.creditId, creditHistoryId |-> t.creditHistoryId,
      creditReceivedId |-> t.creditReceivedId,
      creditReceivedHistoryId |-> t.creditReceivedHistoryId],
     [creditId |-> IdBase.credit_entries + 1,
      creditHistoryId |-> IdBase.credit_history + 1,
      creditReceivedId |-> IdBase.credit_received + 1,
      creditReceivedHistoryId |-> IdBase.credit_received_history + 1],
     [creditId |-> NoId, creditHistoryId |-> NoId,
      creditReceivedId |-> NoId, creditReceivedHistoryId |-> NoId]}
Edited(t) ==
    {[t EXCEPT !.amount = amount,
               !.creditId = l.creditId,
               !.creditHistoryId = l.creditHistoryId,
               !.creditReceivedId = l.creditReceivedId,
               !.creditReceivedHistoryId = l.creditReceivedHistoryId] :
        amount \in EditedAmounts, l \in LinkChoices(t)}

NextReturn ==
    \/ \E e \in NewEntries, failsAt \in 0..3, failsRefresh \in BOOLEAN :
            /\ nextId.credit_entries < ReturnMaxEntries
            /\ addCreditEntry(e, failsAt, failsRefresh)
    \/ \E e \in NewEntries, failsAt \in 0..2, failsRefresh \in BOOLEAN :
            /\ nextId.credit_received < ReturnMaxReceived
            /\ addCreditReceivedEntry(e, failsAt, failsRefresh)
    \/ \E id \in IssuedIds("credit_entries"), amount \in LedgerAmounts,
          pay \in PaymentChoices, failsAt \in 0..3, failsRefresh \in BOOLEAN :
            /\ HistoryIssued < ReturnMaxHistory
            /\ addCreditReturn(id, amount, pay.paymentMethod, pay.cardId,
                               failsAt, failsRefresh)
    \/ \E id \in IssuedIds("credit_received"), amount \in LedgerAmounts,
          pay \in PaymentChoices, failsAt \in 0..3, failsRefresh \in BOOLEAN :
            /\ HistoryIssued < ReturnMaxHistory
            /\ addCreditReceivedReturn(id, amount, pay.paymentMethod, pay.cardId,
                                       failsAt, failsRefresh)
    \/ \E t \in cache.transactions, fails \in BOOLEAN :
            \E updated \in Edited(t) : updateTransaction(updated, fails)
    \/ \E e \in cache.creditEntries, f1 \in BOOLEAN, f2 \in BOOLEAN,
          f3 \in BOOLEAN, failsRefresh \in BOOLEAN :
            deleteCreditEntry(e.id, f1, f2, f3, failsRefresh)
    \/ \E e \in cache.creditReceivedEntries, f1 \in BOOLEAN, f2 \in BOOLEAN,
          f3 \in BOOLEAN, failsRefresh \in BOOLEAN :
            deleteCreditReceivedEntry(e.id, f1, f2, f3, failsRefresh)

SpecReturn == Init /\ [][NextReturn]_vars

(***************************************************************************)
(* The session specification: the user signs out and in again, and the     *)
(* handlers are invoked in both states, from pages that still hold the     *)
(* rows they were opened for.                                              *)
(***************************************************************************)
AuthMaxTransactions == 2
AuthMaxCards == 1
AuthMaxEntries == 1

\* onAuthStateChange without a user: the else branch
onAuthStateChange_signedOut ==
    /\ userId = User
    /\ userId' = NoUser
    /\ cache' = EmptyCache
    /\ loading' = FALSE
    /\ UNCHANGED <<db, nextId, loader, balanceVars, tasks, reset, tenantDb, profile>>

\* onAuthStateChange with a user: setUserId, getProfile, then loadAllData
\* unless getProfile threw
onAuthStateChange_signedIn(failsProfile) ==
    /\ loader["onAuthStateChange"].pc = "done"
    /\ userId' = User
    /\ loader' = IF failsProfile THEN loader
                 ELSE [loader EXCEPT !["onAuthStateChange"] =
                            [pc |-> "read", i |-> 0]]
    /\ UNCHANGED <<db, nextId, cache, balanceVars, tasks, reset, tenantDb, profile,
                   loading>>

\* the transactions a page was opened for
OpenedTransactions == transactionService_getTransactions(db)

NextAuth ==
    \/ Idle /\ onAuthStateChange_signedOut
    \/ \E failsProfile \in BOOLEAN :
            userId = NoUser /\ Idle /\ onAuthStateChange_signedIn(failsProfile)
    \/ \E fails \in BOOLEAN : loadAllData_read("onAuthStateChange", fails)
    \/ \E fails \in BOOLEAN :
            /\ Idle
            /\ nextId.cards < AuthMaxCards
            /\ addCard(fails)
    \/ \E t \in PlainTransactions, fails \in BOOLEAN :
            /\ Idle
            /\ nextId.transactions < AuthMaxTransactions
            /\ addTransaction(t, fails)
    \/ \E id \in IssuedIds("transactions"), fails \in BOOLEAN :
            /\ Idle
            /\ deleteTransaction(id, fails)
    \/ \E t \in OpenedTransactions, fails \in BOOLEAN :
            \E updated \in Edited(t) :
                /\ Idle
                /\ updateTransaction(updated, fails)
    \/ \E e \in NewEntries, failsAt \in 0..3, failsRefresh \in BOOLEAN :
            /\ Idle
            /\ nextId.credit_entries < AuthMaxEntries
            /\ nextId.transactions < AuthMaxTransactions
            /\ addCreditEntry(e, failsAt, failsRefresh)

SpecAuth == Init /\ [][NextAuth]_vars

(***************************************************************************)
(* The startup specification: the provider mounts for a new or a known     *)
(* user.  initializeAuth awaits getCurrentUser and getProfile, the         *)
(* onAuthStateChange callback fires with or without a user whenever it is  *)
(* not running, and a loadAllData run awaits its five reads: the store     *)
(* serves them ("read"), the run holds their results until the join        *)
(* ("join"), and other steps are taken in between: a sign-out, a           *)
(* transaction added or deleted, the other run.                            *)
(***************************************************************************)
StartMaxTransactions == 1

Reads ==
    {"transactions", "categories", "cards", "creditEntries",
     "creditReceivedEntries"}

\* the reads that fail: none, one of them, all of them
ReadFailures == {{}} \cup {{k} : k \in Reads} \cup {Reads}

\* a join that sets every collection whose read succeeded
loadAllData_join_settled(c, results) ==
    LET Set(k) == IF k \in results.failed THEN c[k] ELSE results.data[k]
        done == results.failed # {} \/ results.data.categories # {}
    IN  [cache |-> [transactions |-> Set("transactions"),
                    categories |-> Set("categories"),
                    cards |-> Set("cards"),
                    creditEntries |-> Set("creditEntries"),
                    creditReceivedEntries |-> Set("creditReceivedEntries")],
         pc |-> IF done THEN "done" ELSE "seed",
         loading |-> finally(IF done THEN "done" ELSE "seed", TRUE),
         ok |-> TRUE]

\* Promise.all of the five reads and what follows: when a read has failed
\* the catch logs the error and nothing is set; else the five setX, and the
\* loop of the defaults if no category was read.  The promise of loadAllData
\* resolves (ok) in both cases.
loadAllData_join(c, results) ==
    LET pc == IF results.failed = {} /\ results.data.categories = {}
              THEN "seed" ELSE "done"
    IN  [cache |-> IF results.failed # {} THEN c ELSE results.data,
         pc |-> pc,
         loading |-> finally(pc, TRUE),
         ok |-> TRUE]

\* initializeAuth: getCurrentUser returns the user or null, or throws
initializeAuth_getCurrentUser(outcome) ==
    /\ loader["initializeAuth"].pc = "start"
    /\ userId' = IF outcome = "user" THEN User
                 ELSE IF outcome = "null" THEN NoUser ELSE userId
    /\ loader' = [loader EXCEPT !["initializeAuth"] =
            IF outcome = "user" THEN [pc |-> "profile", i |-> 0]
            ELSE [pc |-> "done", i |-> 0]]
    /\ loading' = IF outcome = "user" THEN loading ELSE FALSE
    /\ UNCHANGED <<db, nextId, cache, balanceVars, tasks, reset, tenantDb, profile>>

\* initializeAuth: getProfile, then loadAllData unless it threw
initializeAuth_getProfile(fails) ==
    /\ loader["initializeAuth"].pc = "profile"
    /\ loader' = [loader EXCEPT !["initializeAuth"] =
            IF fails THEN [pc |-> "done", i |-> 0] ELSE [pc |-> "read", i |-> 0]]
    /\ loading' = IF fails THEN FALSE ELSE loading
    /\ UNCHANGED <<db, nextId, cache, balanceVars, pageVars>>

\* setLoading(true) and the five reads of a run, served by the store
loadAllData_getAll(l, failed) ==
    /\ loader[l].pc = "read"
    /\ loader' = [loader EXCEPT ![l] =
            [pc |-> "join", i |-> 0,
             data |-> loadAllData(db, EmptyCache, FALSE), failed |-> failed]]
    /\ loading' = TRUE
    /\ UNCHANGED <<db, nextId, cache, balanceVars, pageVars>>

\* the reads of a run have all returned
loadAllData_joined(l) ==
    /\ loader[l].pc = "join"
    /\ LET r == loadAllData_join(cache, loader[l])
       IN  /\ cache' = r.cache
           /\ loading' = r.loading
           /\ loader' = [loader EXCEPT ![l] =
                    [pc |-> r.pc, i |-> IF r.pc = "seed" THEN 1 ELSE 0]]
    /\ UNCHANGED <<db, nextId, balanceVars, pageVars>>

\* a step of run l
loadAllData_step(l) ==
    \/ \E failed \in ReadFailures : loadAllData_getAll(l, failed)
    \/ loadAllData_joined(l)
    \/ \E fails \in BOOLEAN : loadAllData_seed(l, fails)

initializeAuth_step ==
    \/ \E outcome \in {"user", "null", "error"} :
            initializeAuth_getCurrentUser(outcome)
    \/ \E fails \in BOOLEAN : initializeAuth_getProfile(fails)

InitStartup ==
    /\ db \in {EmptyStore, SeededStore}
    /\ nextId = [t \in Tables |-> Cardinality(db[t])]
    /\ cache = EmptyCache
    /\ loader = [StartupDone EXCEPT !["initializeAuth"] = [pc |-> "start", i |-> 0]]
    /\ userId = NoUser
    /\ loading = TRUE
    /\ tasks = {}
    /\ reset = ResetIdle
    /\ tenantDb = EmptyTenantDb
    /\ profile = BlankProfile
    /\ InitBalanceIdle

\* the steps that set the user, the runs and the loading flag
NextMount ==
    \/ initializeAuth_step
    \/ \E l \in Loaders : loadAllData_step(l)
    \/ \E failsProfile \in BOOLEAN : onAuthStateChange_signedIn(failsProfile)
    \/ onAuthStateChange_signedOut

NextStartup ==
    \/ NextMount
    \/ \E t \in PlainTransactions, fails \in BOOLEAN :
            /\ nextId.transactions < StartMaxTransactions
            /\ addTransaction(t, fails)
    \/ \E t \in cache.transactions, fails \in BOOLEAN :
            deleteTransaction(t.id, fails)

SpecStartup == InitStartup /\ [][NextStartup]_vars

\* the mount alone, where every remote call returns: a run that can take a
\* step takes one
FairStartup ==
    /\ InitStartup /\ [][NextMount]_vars
    /\ WF_vars(initializeAuth_step)
    /\ \A l \in Loaders : WF_vars(loadAllData_step(l))

(***************************************************************************)
(* The cascade specification: a service is followed through the remote     *)
(* calls it awaits one after the other.  deleteCategory and                *)
(* deleteCreditReceivedReturnHistory are invoked from their handlers;      *)
(* resetToDefaults starts its four branches at once, each branch reads its *)
(* table and starts one delete per row, and the remote calls of all of     *)
(* them reach the store in any order.                                      *)
(***************************************************************************)
\* the remote calls a delete service awaits, in the order of its code
Calls ==
    [deleteTransaction |-> <<"row">>,
     deleteCard |-> <<"row">>,
     deleteCreditEntry |-> <<"transactions", "history", "parent">>,
     deleteCreditReceivedEntry |-> <<"transactions", "history", "parent">>,
     deleteCreditReceivedReturnHistory |-> <<"select", "transactions", "parent">>,
     deleteCategory |-> <<"select", "transactions", "parent">>]

\* a call of a service: `log` holds the remote calls that have returned,
\* `found` what getCategory gave
Task(op, id, from) ==
    [op |-> op, id |-> id, from |-> from, log |-> <<>>, found |-> TRUE,
     state |-> "running"]

Returned(t) == {t.log[i] : i \in DOMAIN t.log}

\* the calls a service call still has to issue: deleteCategory issues no
\* transactions delete when getCategory gave null
Remaining(t) ==
    SelectSeq(Calls[t.op],
        LAMBDA c : /\ c \notin Returned(t)
                   /\ ~(t.op = "deleteCategory" /\ c = "transactions" /\ ~t.found))

\* what one remote call of a service makes of the store and whether the
\* service throws on it: the service with its other calls left out
OneCall(op, id, call, d, fails) ==
    CASE op = "deleteTransaction" ->
            transactionService_deleteTransaction(d, id, fails)
      [] op = "deleteCard" -> cardService_deleteCard(d, id, fails)
      [] op = "deleteCreditEntry" /\ call = "transactions" ->
            [db |-> creditService_deleteCreditEntry(d, id, fails, TRUE, TRUE).db,
             ok |-> TRUE]
      [] op = "deleteCreditEntry" /\ call = "history" ->
            [db |-> creditService_deleteCreditEntry(d, id, TRUE, fails, TRUE).db,
             ok |-> TRUE]
      [] op = "deleteCreditEntry" /\ call = "parent" ->
            creditService_deleteCreditEntry(d, id, TRUE, TRUE, fails)
      [] op = "deleteCreditReceivedEntry" /\ call = "transactions" ->
            [db |-> creditReceivedService_deleteCreditReceivedEntry(
                        d, id, fails, TRUE, TRUE).db,
             ok |-> TRUE]
      [] op = "deleteCreditReceivedEntry" /\ call = "history" ->
            [db |-> creditReceivedService_deleteCreditReceivedEntry(
                        d, id, TRUE, fails, TRUE).db,
             ok |-> TRUE]
      [] op = "deleteCreditReceivedEntry" /\ call = "parent" ->
            creditReceivedService_deleteCreditReceivedEntry(d, id, TRUE, TRUE, fails)
      [] op = "deleteCreditReceivedReturnHistory" /\ call = "select" ->
            [db |-> d,
             ok |-> ~fails /\ \E h \in d.credit_received_history : h.id = id]
      [] op = "deleteCreditReceivedReturnHistory" /\ call = "transactions" ->
            [db |-> creditReceivedService_deleteCreditReceivedReturnHistory(
                        d, NoId, id, FALSE, fails, TRUE).db,
             ok |-> TRUE]
      [] op = "deleteCreditReceivedReturnHistory" /\ call = "parent" ->
            creditReceivedService_deleteCreditReceivedReturnHistory(
                d, NoId, id, FALSE, TRUE, fails)
      [] op = "deleteCategory" /\ call = "select" -> [db |-> d, ok |-> TRUE]
      [] op = "deleteCategory" /\ call = "transactions" ->
            [db |-> categoryService_deleteCategory(d, id, FALSE, fails, TRUE).db,
             ok |-> TRUE]
      [] op = "deleteCategory" /\ call = "parent" ->
            categoryService_deleteCategory(d, id, TRUE, TRUE, fails)

\* what the handler does when its service has resolved
Continuation(t, d, failsRefresh) ==
    IF t.op = "deleteCategory"
    THEN run_deleteCategory(t.id, FALSE, FALSE, FALSE).cache
    ELSE refreshData(d, cache, failsRefresh)

\* one remote call of a service call in flight returns
service_call(t, fails, failsRefresh) ==
    LET call == Head(Remaining(t))
        r == OneCall(t.op, t.id, call, db, fails)
        t1 == [t EXCEPT
                !.log = Append(@, call),
                !.found = IF t.op = "deleteCategory" /\ call = "select"
                            THEN categoryService_getCategory(db, t.id, fails) # {}
                            ELSE @]
        t2 == [t1 EXCEPT !.state = IF ~r.ok THEN "rejected"
                                   ELSE IF Remaining(t1) = <<>> THEN "resolved"
                                   ELSE "running"]
    IN  /\ t \in tasks
        /\ t.state = "running"
        /\ db' = r.db
        /\ tasks' = (tasks \ {t}) \cup {t2}
        /\ reset' = IF t.from = "reset" /\ ~r.ok /\ reset.pc = "branches"
                        THEN [reset EXCEPT !.pc = "rejected"] ELSE reset
        /\ cache' = IF t.from = "handler" /\ t2.state = "resolved"
                        THEN Continuation(t, r.db, failsRefresh) ELSE cache
        /\ UNCHANGED <<nextId, loader, balanceVars, userId, tenantDb, profile,
                       loading>>

Quiet == reset.pc = "idle" /\ \A t \in tasks : t.state # "running"

\* a handler calls its service
handler_call(op, id) ==
    /\ userId = User
    /\ Quiet
    /\ tasks' = {t \in tasks : ~(t.op = op /\ t.id = id)}
                    \cup {Task(op, id, "handler")}
    /\ UNCHANGED <<db, nextId, cache, loader, balanceVars, userId, reset,
                   tenantDb, profile, loading>>

\* the table each branch of resetToDefaults reads and the service it calls
\* for every row
Branches ==
    [transactions |-> "deleteTransaction", cards |-> "deleteCard",
     credit_entries |-> "deleteCreditEntry",
     credit_received |-> "deleteCreditReceivedEntry"]

\* followed on the account as it was opened
resetToDefaults_call ==
    /\ userId = User
    /\ reset.pc = "idle"
    /\ tasks = {}
    /\ reset' = [pc |-> "branches", reads |-> DOMAIN Branches]
    /\ tasks' = {}
    /\ UNCHANGED <<db, nextId, cache, loader, balanceVars, userId, tenantDb,
                   profile, loading>>

\* the read of a branch returns: the branch maps its rows to delete calls
resetToDefaults_read(b, fails) ==
    /\ b \in reset.reads
    /\ reset' = [reads |-> reset.reads \ {b},
                 pc |-> IF fails /\ reset.pc = "branches"
                            THEN "rejected" ELSE reset.pc]
    /\ tasks' = IF fails THEN tasks
                ELSE tasks \cup {Task(Branches[b], id, "reset") : id \in Ids(db[b])}
    /\ UNCHANGED <<db, nextId, cache, loader, balanceVars, userId, tenantDb,
                   profile, loading>>

\* both Promise.all have resolved: `await refreshData()`
resetToDefaults_refresh(fails) ==
    /\ reset.pc = "branches"
    /\ reset.reads = {}
    /\ \A t \in tasks : t.state = "resolved"
    /\ cache' = refreshData(db, cache, fails)
    /\ reset' = [reset EXCEPT !.pc = "resolved"]
    /\ UNCHANGED <<db, nextId, tasks, loader, balanceVars, userId, tenantDb,
                   profile, loading>>

\* the account resetToDefaults is invoked on: a category of the user's own
\* next to the default ones, a card, an entry lent from it, an entry
\* received and a repayment of it
IdsFor(d) == [t \in Tables |-> IdBase[t] + Cardinality(d[t]) + 1]
Account ==
    LET d1 == categoryService_createCategory(SeededStore, IdsFor(SeededStore),
                    [name |-> "food", type |-> "income"], FALSE).db
        d2 == cardService_createCard(d1, IdsFor(d1), FALSE).db
        d4 == creditService_createCreditEntry(d2, IdsFor(d2),
                    [personName |-> "Alice", amount |-> 100,
                     initialPaymentMethod |-> "card",
                     initialCardId |-> IdBase.cards + 1],
                    2, 0).db
        d5 == creditReceivedService_createCreditReceivedEntry(d4, IdsFor(d4),
                    [personName |-> "Alice", amount |-> 100,
                     initialPaymentMethod |-> "cash", initialCardId |-> NoId],
                    3, 0).db
    IN  creditReceivedService_addCreditReceivedReturn(d5, IdsFor(d5),
            IdBase.credit_received + 1, 40, "cash", NoId, 4, 0).db

InitCascade ==
    /\ db = Account
    /\ nextId = [t \in Tables |-> Cardinality(Account[t])]
    /\ cache = loadAllData(Account, EmptyCache, FALSE)
    /\ loader = StartupDone
    /\ InitBalanceIdle
    /\ InitPages

NextCascade ==
    \/ \E t \in tasks, fails \in BOOLEAN, failsRefresh \in BOOLEAN :
            service_call(t, fails, failsRefresh)
    \/ \E c \in cache.categories : handler_call("deleteCategory", c.id)
    \/ \E e \in cache.creditReceivedEntries : \E h \in e.history :
            handler_call("deleteCreditReceivedReturnHistory", h.id)
    \/ resetToDefaults_call
    \/ \E b \in DOMAIN Branches, fails \in BOOLEAN : resetToDefaults_read(b, fails)
    \/ \E fails \in BOOLEAN : resetToDefaults_refresh(fails)

SpecCascade == InitCascade /\ [][NextCascade]_vars

(***************************************************************************)
(* The isolation specification: two users work on one store behind the     *)
(* row-level policies.  `tenantDb` holds rows of a table with a user_id    *)
(* column (transactions), of credit_entries and of credit_history, whose   *)
(* rows belong to the user of their entry; cards, categories and           *)
(* credit_received carry the policies of transactions, and                 *)
(* credit_received_history those of credit_history.  A session issues the  *)
(* calls of the services with any id and any user_id it likes.             *)
(***************************************************************************)
TenantMaxRows == 4

TenantTables == {"transactions", "credit_entries", "credit_history"}

\* a store without row-level security
Using_disabled(s, row, rows) == TRUE

\* the policy expression of a table for the session of user s (auth.uid()):
\* auth.uid() = user_id, and for credit_history the EXISTS on credit_entries
Using(s, row, rows) ==
    IF row.table = "credit_history"
    THEN \E e \in rows : /\ e.table = "credit_entries"
                         /\ e.id = row.credit_id
                         /\ e.user_id = s
    ELSE row.user_id = s

\* .select(): the rows of the table the SELECT policy lets through
tenantSelect(t, s, table) ==
    {r \in t.rows : r.table = table /\ Using(s, r, t.rows)}

\* .insert(): refused unless the new row passes WITH CHECK
tenantInsert(t, s, table, user, creditId) ==
    LET row == [table |-> table, id |-> t.issued + 1,
                user_id |-> IF table = "credit_history" THEN NoUser ELSE user,
                credit_id |-> IF table = "credit_history" THEN creditId ELSE NoId,
                edits |-> 0]
    IN  IF Using(s, row, t.rows)
        THEN [rows |-> t.rows \cup {row}, issued |-> t.issued + 1]
        ELSE t

\* .update(...).eq('id', id): the rows the UPDATE policy shows, and the new
\* row has to pass the same expression
tenantUpdate(t, s, table, id, user) ==
    LET found == {r \in t.rows : r.table = table /\ r.id = id /\ Using(s, r, t.rows)}
        new == {[r EXCEPT !.edits = 1,
                          !.user_id = IF table = "credit_history" THEN @ ELSE user] :
                    r \in found}
    IN  IF \A r \in new : Using(s, r, t.rows)
        THEN [t EXCEPT !.rows = (@ \ found) \cup new]
        ELSE t

\* .delete().eq(column, id) with column id or credit_id: the rows the DELETE
\* policy shows; the history rows of a deleted entry go with it
tenantDelete(t, s, table, column, id) ==
    LET found == {r \in t.rows : /\ r.table = table
                                 /\ r[column] = id
                                 /\ Using(s, r, t.rows)}
        left == t.rows \ found
    IN  [t EXCEPT !.rows =
            {r \in left : r.table = "credit_history" =>
                \E e \in left : e.table = "credit_entries" /\ e.id = r.credit_id}]

tenant_call(new) ==
    /\ tenantDb' = new
    /\ UNCHANGED <<db, nextId, cache, loader, balanceVars, userId, tasks, reset,
                   profile, loading>>

TenantIds == 1..TenantMaxRows

NextTenant ==
    \/ \E s \in Users, table \in TenantTables, user \in Users, id \in TenantIds :
            /\ tenantDb.issued < TenantMaxRows
            /\ tenant_call(tenantInsert(tenantDb, s, table, user, id))
    \/ \E s \in Users, table \in TenantTables, user \in Users, id \in TenantIds :
            tenant_call(tenantUpdate(tenantDb, s, table, id, user))
    \/ \E s \in Users, table \in TenantTables, id \in TenantIds :
            tenant_call(tenantDelete(tenantDb, s, table, "id", id))
    \/ \E s \in Users, id \in TenantIds :
            tenant_call(tenantDelete(tenantDb, s, "credit_history", "credit_id", id))

SpecTenant == Init /\ [][NextTenant]_vars

(***************************************************************************)
(* The profile specification: the signed-in user fills the password form   *)
(* of ProfilePage and submits it.                                          *)
(***************************************************************************)
\* calculatePasswordStrength(p).score: the criteria a password meets
calculatePasswordStrength ==
    [p \in Passwords |->
        [score |-> CASE p = "" -> 0
                     [] p = "newpass" -> 2
                     [] OTHER -> 5]]

\* supabase.auth.signInWithPassword: the provider answers { data, error },
\* with an error when the password is not the one of the account; it throws
\* only when the request itself breaks down
signInWithPassword(account, password, breaks) ==
    IF breaks THEN [thrown |-> TRUE, error |-> TRUE]
    ELSE [thrown |-> FALSE, error |-> password # account]

Toast(p, message) == [p EXCEPT !.toast = message]

\* the profile after the handler and whether the password update was issued
run_handlePasswordChange(failsUser, breaks, failsUpdate) ==
    LET p == profile
        signIn == signInWithPassword(p.password, p.currentPassword, breaks)
    IN  IF p.currentPassword = "" \/ p.newPassword = "" \/ p.confirmPassword = ""
        THEN [profile |-> Toast(p, "Please fill in all password fields."),
              issued |-> FALSE]
        ELSE IF p.newPassword # p.confirmPassword
        THEN [profile |-> Toast(p, "New passwords do not match."),
              issued |-> FALSE]
        ELSE IF calculatePasswordStrength[p.newPassword].score < 4
        THEN [profile |-> Toast(p, "Password is too weak. Please meet at least 4 criteria."),
              issued |-> FALSE]
        ELSE IF failsUser
        THEN [profile |-> Toast(p, "Error updating password"), issued |-> FALSE]
        ELSE IF signIn.thrown
        THEN [profile |-> Toast(p, "Incorrect current password."),
              issued |-> FALSE]
        ELSE IF failsUpdate
        THEN [profile |-> Toast(p, "Error updating password"), issued |-> TRUE]
        ELSE [profile |->
                [password |-> p.newPassword, currentPassword |-> "",
                 newPassword |-> "", confirmPassword |-> "",
                 toast |-> "Your password has been securely updated."],
              issued |-> TRUE]

handlePasswordChange(failsUser, breaks, failsUpdate) ==
    /\ profile' = run_handlePasswordChange(failsUser, breaks, failsUpdate).profile
    /\ UNCHANGED <<db, nextId, cache, loader, balanceVars, userId, tasks, reset,
                   tenantDb, loading>>

\* setCurrentPassword, setNewPassword, setConfirmPassword
setPasswords(current, new, confirm) ==
    /\ profile' = [profile EXCEPT !.currentPassword = current,
                                  !.newPassword = new,
                                  !.confirmPassword = confirm]
    /\ UNCHANGED <<db, nextId, cache, loader, balanceVars, userId, tasks, reset,
                   tenantDb, loading>>

NextProfile ==
    \/ \E current \in Passwords, new \in Passwords, confirm \in Passwords :
            setPasswords(current, new, confirm)
    \/ \E failsUser \in BOOLEAN, breaks \in BOOLEAN, failsUpdate \in BOOLEAN :
            handlePasswordChange(failsUser, breaks, failsUpdate)

SpecProfile == Init /\ [][NextProfile]_vars

(***************************************************************************)
(* The create specification: credit entries are created next to a card, a  *)
(* plain transaction and an entry that was already repaid in part.         *)
(***************************************************************************)
CreateMaxCards == 1
CreateMaxPlain == 1
CreateMaxEntries == 2
CreateMaxReturns == 1

NextCreate ==
    \/ \E fails \in BOOLEAN :
            /\ nextId.cards < CreateMaxCards
            /\ addCard(fails)
    \/ \E t \in PlainTransactions, fails \in BOOLEAN :
            /\ Cardinality({r \in db.transactions : Plain(r)}) < CreateMaxPlain
            /\ addTransaction(t, fails)
    \/ \E e \in NewEntries, failsAt \in 0..3, failsRefresh \in BOOLEAN :
            /\ nextId.credit_entries < CreateMaxEntries
            /\ addCreditEntry(e, failsAt, failsRefresh)
    \/ \E e \in cache.creditEntries, amount \in LedgerAmounts,
          pay \in PaymentChoices, failsAt \in 0..3, failsRefresh \in BOOLEAN :
            /\ Cardinality({h \in db.credit_history : h.type = "returned"})
                    < CreateMaxReturns
            /\ addCreditReturn(e.id, amount, pay.paymentMethod, pay.cardId,
                               failsAt, failsRefresh)

SpecCreate == Init /\ [][NextCreate]_vars

(***************************************************************************)
(* The category specification: a new user signs in, the two loadAllData    *)
(* runs of startup interleave and create the default categories; then the  *)
(* user adds, renames and deletes categories and enters transactions under *)
(* the categories shown.                                                   *)
(***************************************************************************)
\* category rows the store ever inserts; transactions entered
CatMaxCategories == 2
CatMaxTransactions == 3

CategoryNames == DOMAIN LowerCase

NewCategories ==
    {[name |-> name, type |-> type] :
        name \in CategoryNames, type \in {"income", "expense"}}

\* the names the user renames to and enters transactions under
RenameNames == {"Food", "food"}

\* the category form edits the name of a category shown
RenamedCategories ==
    {[id |-> c.id, name |-> name, type |-> c.type] :
        c \in cache.categories, name \in RenameNames}

\* the transaction form offers the categories shown
CategoryTransactions ==
    {NewTransaction(c.type, c.name, amount, Now, <<>>, "cash", NoId) :
        c \in {x \in cache.categories : x.name \in RenameNames},
        amount \in PlainAmounts}

InitCat ==
    /\ db = EmptyStore
    /\ nextId = [t \in Tables |-> 0]
    /\ cache = EmptyCache
    /\ loader = [l \in Loaders |-> [pc |-> "read", i |-> 0]]
    /\ InitBalanceIdle
    /\ InitPages

NextCat ==
    \/ \E l \in Loaders, fails \in BOOLEAN : loadAllData_read(l, fails)
    \/ \E l \in Loaders, fails \in BOOLEAN : loadAllData_seed(l, fails)
    \/ \E c \in NewCategories, fails \in BOOLEAN :
            /\ Idle
            /\ nextId.categories < CatMaxCategories
            /\ addCategory(c, fails)
    \/ \E updated \in RenamedCategories, failsCategory \in BOOLEAN,
          failsAt \in 0..CatMaxTransactions :
            /\ Idle
            /\ updateCategory(updated, failsCategory, failsAt)
    \/ \E c \in cache.categories, f1 \in BOOLEAN, f2 \in BOOLEAN, f3 \in BOOLEAN :
            /\ Idle
            /\ deleteCategory(c.id, f1, f2, f3)
    \/ \E t \in CategoryTransactions, fails \in BOOLEAN :
            /\ Idle
            /\ nextId.transactions < CatMaxTransactions
            /\ addTransaction(t, fails)

SpecCat == InitCat /\ [][NextCat]_vars

(***************************************************************************)
(* Numbers.  An amount is stored as decimal text and read with parseFloat; *)
(* a balance is a JavaScript number, an IEEE-754 binary64 value: a sign    *)
(* and a magnitude, the magnitude written as the set of the positions of   *)
(* its one bits (position k stands for 2^k), at most SignificandBits       *)
(* positions wide.  Sums are rounded to nearest, ties to even.             *)
(***************************************************************************)
SignificandBits == 53
\* no amount of two decimals has a one bit of its first 53 below this position
LowestBit == 0 - 64
CentsPerUnit == 100

Max(S) == CHOOSE x \in S : \A y \in S : y <= x
Min(S) == CHOOSE x \in S : \A y \in S : x <= y

\* exact sum of two magnitudes: position k receives a carry when a position
\* below it holds a one of both and every position between holds a one
MagAdd(A, B) ==
    {k \in (A \cup B) \cup {j + 1 : j \in A \cup B} :
        ((k \in A) # (k \in B))
            # (\E j \in A \cap B :
                    j < k /\ \A i \in (j + 1)..(k - 1) : i \in A \cup B)}

\* exact difference of two magnitudes, A >= B: position k lends when a
\* position below it holds a one of B only and no position between holds a
\* one of A only
MagSub(A, B) ==
    IF B = {} THEN A
    ELSE {k \in Min(B)..Max(A) :
            ((k \in A) # (k \in B))
                # (\E j \in B \ A :
                        j < k /\ \A i \in (j + 1)..(k - 1) : i \notin A \ B)}
            \cup {k \in A : k < Min(B)}

MagLess(A, B) == A # B /\ Max((A \ B) \cup (B \ A)) \in B

\* nearest magnitude whose lowest position is lsb, ties to even; sticky: the
\* exact value has a nonzero part below every position of S
RoundAt(S, sticky, lsb) ==
    IF (lsb - 1) \in S /\ (sticky \/ lsb \in S \/ \E k \in S : k < lsb - 1)
    THEN MagAdd({k \in S : k >= lsb}, {lsb})
    ELSE {k \in S : k >= lsb}

\* nearest magnitude of SignificandBits bits
RoundNearestEven(S, sticky) ==
    IF S = {} THEN {} ELSE RoundAt(S, sticky, Max(S) - (SignificandBits - 1))

FloatZero == [neg |-> FALSE, mag |-> {}]

\* x + y
FloatAdd(x, y) ==
    IF x.neg = y.neg
    THEN [neg |-> x.neg, mag |-> RoundNearestEven(MagAdd(x.mag, y.mag), FALSE)]
    ELSE IF x.mag = y.mag THEN FloatZero
    ELSE IF MagLess(x.mag, y.mag)
    THEN [neg |-> y.neg, mag |-> RoundNearestEven(MagSub(y.mag, x.mag), FALSE)]
    ELSE [neg |-> x.neg, mag |-> RoundNearestEven(MagSub(x.mag, y.mag), FALSE)]

\* x - y
FloatSub(x, y) == FloatAdd(x, [y EXCEPT !.neg = ~@])

\* the one bits of the natural number n < 2^31
IntBits(n) == {k \in 0..30 : (n \div 2^k) % 2 = 1}

\* 2^e modulo CentsPerUnit, e < 80, on numbers below 2^31
Pow2Mod(e) ==
    ((2^(e % 16) % CentsPerUnit)
        * (((2^16 % CentsPerUnit)^(e \div 16)) % CentsPerUnit)) % CentsPerUnit

\* the one bits of r / CentsPerUnit, r < CentsPerUnit, down to LowestBit:
\* the bit at position -j is the integer part of twice the fraction left
\* after j - 1 doublings
FracBits(r) ==
    {0 - j : j \in {i \in 1..(0 - LowestBit) :
                        2 * ((r * Pow2Mod(i - 1)) % CentsPerUnit) >= CentsPerUnit}}

\* what is left of r / CentsPerUnit below LowestBit
FracRest(r) == (r * Pow2Mod(0 - LowestBit)) % CentsPerUnit

\* parseFloat of the decimal text of an amount of `cents` hundredths
ParseFloat(cents) ==
    [neg |-> FALSE,
     mag |-> RoundNearestEven(
                IntBits(cents \div CentsPerUnit) \cup FracBits(cents % CentsPerUnit),
                FracRest(cents % CentsPerUnit) # 0)]

(***************************************************************************)
(* Balance derivation (DataContext, `balances`).  The map from a money     *)
(* source to its balance is a record: the key "cash" and one key per card. *)
(***************************************************************************)
\* one turn of transactions.forEach
balanceStep_expenseFallsToCash(balanceMap, t) ==
    IF t.type = "income"
    THEN IF t.cardId # NoId /\ t.cardId \in DOMAIN balanceMap.card
         THEN [balanceMap EXCEPT !.card[t.cardId] = FloatAdd(@, t.amount)]
         ELSE [balanceMap EXCEPT !.cash = FloatAdd(@, t.amount)]
    ELSE IF t.cardId # NoId /\ t.cardId \in DOMAIN balanceMap.card
         THEN [balanceMap EXCEPT !.card[t.cardId] = FloatSub(@, t.amount)]
         ELSE [balanceMap EXCEPT !.cash = FloatSub(@, t.amount)]

balanceStep(balanceMap, t) ==
    IF t.type = "income"
    THEN IF t.cardId # NoId /\ t.cardId \in DOMAIN balanceMap.card
         THEN [balanceMap EXCEPT !.card[t.cardId] = FloatAdd(@, t.amount)]
         ELSE [balanceMap EXCEPT !.cash = FloatAdd(@, t.amount)]
    ELSE IF t.cardId # NoId /\ t.cardId \in DOMAIN balanceMap.card
         THEN [balanceMap EXCEPT !.card[t.cardId] = FloatSub(@, t.amount)]
         ELSE IF t.paymentMethod = "cash"
         THEN [balanceMap EXCEPT !.cash = FloatSub(@, t.amount)]
         ELSE balanceMap

RECURSIVE forEach(_, _, _)
forEach(balanceMap, transactions, i) ==
    IF i > Len(transactions) THEN balanceMap
    ELSE forEach(balanceStep(balanceMap, transactions[i]), transactions, i + 1)

balances(cards, transactions) ==
    forEach([cash |-> FloatZero, card |-> [c \in Ids(cards) |-> FloatZero]],
            transactions, 1)

\* the transactions as the cache holds them: getTransactions parses the
\* amount text of every row
Snapshot(rows) == [i \in DOMAIN rows |-> [rows[i] EXCEPT !.amount = ParseFloat(@)]]

(***************************************************************************)
(* The balance specification: a snapshot of cards and transactions, drawn  *)
(* from every list of at most MaxLen transactions, is rendered.            *)
(***************************************************************************)
MaxLen == 3
\* amounts in hundredths: 0.10, 20.00, 50.00
BalanceCents == {10, 2000, 5000}
BalanceCard == IdBase.cards + 1
\* paid in cash, by card, or with no payment method recorded
BalanceSources ==
    {[paymentMethod |-> "cash", cardId |-> NoId],
     [paymentMethod |-> "card", cardId |-> BalanceCard],
     [paymentMethod |-> NoMethod, cardId |-> NoId]}
BalanceTransactions ==
    {[type |-> type, amount |-> cents, paymentMethod |-> src.paymentMethod,
      cardId |-> src.cardId] :
        type \in {"income", "expense"}, cents \in BalanceCents,
        src \in BalanceSources}

NotRendered == <<>>

InitBal ==
    /\ db = EmptyStore
    /\ nextId = [t \in Tables |-> 0]
    /\ cache = EmptyCache
    /\ loader = StartupDone
    /\ bCards \in SUBSET {[id |-> BalanceCard]}
    /\ bTransactions \in UNION {[1..n -> BalanceTransactions] : n \in 0..MaxLen}
    /\ bBalances = NotRendered
    /\ InitPages

Render ==
    /\ bBalances = NotRendered
    /\ bBalances' = balances(bCards, Snapshot(bTransactions))
    /\ UNCHANGED <<bCards, bTransactions, ledgerVars>>

NextBal == Render

SpecBal == InitBal /\ [][NextBal]_vars

(***************************************************************************)
(* Properties of the ledger specification.                                 *)
(***************************************************************************)
\* ids a caller can name: rows of the store and rows still shown in the cache
CreditEntryIds == Ids(db.credit_entries) \cup Ids(cache.creditEntries)
CreditReceivedIds == Ids(db.credit_received) \cup Ids(cache.creditReceivedEntries)
CardIds == Ids(db.cards) \cup Ids(cache.cards)

\* C1 (mirror invariant, P1): every credit_history / credit_received_history
\* row has exactly one transaction whose history back-reference is its id, and
\* every transaction with a history back-reference points to an existing
\* history row.
C1_MirrorInvariant ==
    /\ \A h \in db.credit_history :
          Cardinality({t \in db.transactions : t.credit_history_id = h.id}) = 1
    /\ \A h \in db.credit_received_history :
          Cardinality({t \in db.transactions :
                          t.credit_received_history_id = h.id}) = 1
    /\ \A t \in db.transactions :
          /\ t.credit_history_id # NoId =>
                \E h \in db.credit_history : h.id = t.credit_history_id
          /\ t.credit_received_history_id # NoId =>
                \E h \in db.credit_received_history :
                    h.id = t.credit_received_history_id

\* C2 (cascade completeness, P4): whenever deleteCreditEntry(id) (resp.
\* deleteCreditReceivedEntry(id)) resolves, the store holds no transaction
\* whose creditId (resp. creditReceivedId) is id and no history row of id,
\* also when the delete of the transactions or of the history failed.
C2_CascadeCompleteness ==
    [][ /\ \A id \in CreditEntryIds, f1 \in BOOLEAN, f2 \in BOOLEAN,
              failsRefresh \in BOOLEAN :
            LET r == run_deleteCreditEntry(id, f1, f2, FALSE, failsRefresh)
            IN  (r.ok /\ Step(r)) =>
                    /\ \A t \in db'.transactions : t.credit_id # id
                    /\ \A h \in db'.credit_history : h.credit_id # id
        /\ \A id \in CreditReceivedIds, f1 \in BOOLEAN, f2 \in BOOLEAN,
              failsRefresh \in BOOLEAN :
            LET r == run_deleteCreditReceivedEntry(id, f1, f2, FALSE, failsRefresh)
            IN  (r.ok /\ Step(r)) =>
                    /\ \A t \in db'.transactions : t.credit_received_id # id
                    /\ \A h \in db'.credit_received_history :
                            h.credit_received_id # id
      ]_vars

\* a card is in use: a transaction's cardId or a credit entry's initialCardId
\* is its id
CardInUse(d, cardId) ==
    \/ \E t \in d.transactions : t.card_id = cardId
    \/ \E e \in d.credit_entries : e.initial_card_id = cardId

\* C3 (guarded card delete, P5): deleteCard on a card in use rejects and
\* removes no row from the store and no card from the cache.
C3_GuardedCardDelete ==
    [][ \A id \in CardIds, f1 \in BOOLEAN, f2 \in BOOLEAN, f3 \in BOOLEAN :
            LET r == run_deleteCard(id, f1, f2, f3)
            IN  (CardInUse(db, id) /\ Step(r)) =>
                    /\ ~r.ok
                    /\ db' = db
                    /\ cache'.cards = cache.cards
      ]_vars

\* C6 (all-or-nothing create): when createCreditEntry rejects because the
\* history insert or the transaction insert failed, the store holds no
\* credit_entries row and no credit_history row created by that call.
C6_CreateAllOrNothing ==
    [][ \A e \in NewEntries, failsAt \in 2..3, failsRefresh \in BOOLEAN :
            LET r == run_addCreditEntry(e, failsAt, failsRefresh)
            IN  Step(r) =>
                    /\ ~r.ok
                    /\ Ids(db'.credit_entries) = Ids(db.credit_entries)
                    /\ Ids(db'.credit_history) = Ids(db.credit_history)
      ]_vars

\* C7 (fail-closed guard): when one of the two in-use queries of isCardInUse
\* fails, deleteCard rejects and the card row remains.
C7_FailClosedGuard ==
    [][ \A id \in CardIds, f1 \in BOOLEAN, f2 \in BOOLEAN, f3 \in BOOLEAN :
            LET r == run_deleteCard(id, f1, f2, f3)
                \* the credit_entries query is issued when the transactions
                \* query succeeded and found nothing
                issued2 == ~f1 /\ ~\E t \in db.transactions : t.card_id = id
            IN  ((f1 \/ (issued2 /\ f2)) /\ Step(r)) =>
                    /\ ~r.ok
                    /\ db'.cards = db.cards
      ]_vars

\* C10 (effect of a successful create): a successful createCreditEntry adds
\* exactly one credit entry (returned amount 0, status active), exactly one
\* history item of type given with the entry's amount and given date, and
\* exactly one expense transaction of category "Credit" with the entry's
\* amount, date, payment method and card that refers to the new entry and the
\* new history item; no other row is added or changed.
C10_CreateCreditEntryEffect ==
    [][ \A newEntry \in NewEntries, failsRefresh \in BOOLEAN :
            LET r == run_addCreditEntry(newEntry, 0, failsRefresh)
            IN  (r.ok /\ Step(r)) =>
                \E e \in db'.credit_entries, h \in db'.credit_history,
                   t \in db'.transactions :
                    /\ e.id \notin Ids(db.credit_entries)
                    /\ h.id \notin Ids(db.credit_history)
                    /\ t.id \notin Ids(db.transactions)
                    /\ db'.credit_entries = db.credit_entries \cup {e}
                    /\ db'.credit_history = db.credit_history \cup {h}
                    /\ db'.transactions = db.transactions \cup {t}
                    /\ db'.cards = db.cards
                    /\ db'.credit_received = db.credit_received
                    /\ db'.credit_received_history = db.credit_received_history
                    /\ e.person_name = newEntry.personName
                    /\ e.amount = newEntry.amount
                    /\ e.returned_amount = 0 /\ e.status = "active"
                    /\ e.initial_payment_method = newEntry.initialPaymentMethod
                    /\ e.initial_card_id = newEntry.initialCardId
                    /\ h.credit_id = e.id /\ h.type = "given"
                    /\ h.amount = e.amount /\ h.date = e.given_date
                    /\ t.type = "expense" /\ t.category = "Credit"
                    /\ t.amount = e.amount /\ t.date = e.given_date
                    /\ t.note = <<"Credit given to", e.person_name>>
                    /\ t.payment_method = e.initial_payment_method
                    /\ t.card_id = e.initial_card_id
                    /\ t.credit_id = e.id /\ t.credit_history_id = h.id
                    /\ t.credit_received_id = NoId
                    /\ t.credit_received_history_id = NoId
                    \* what the caller gets back and the cache shows
                    /\ \E c \in cache'.creditEntries :
                        /\ c.id = e.id /\ c.amount = e.amount
                        /\ c.returnedAmount = 0 /\ c.status = "active"
                        /\ Cardinality(c.history) = 1
      ]_vars

\* a credit entry was created next to a plain transaction, a card and an
\* older entry repaid in part: its row, its given item and its mirror
\* transaction are all there
C10_Created ==
    /\ db.cards # {}
    /\ \E e \in db.credit_entries, h \in db.credit_history,
          t \in db.transactions, u \in db.transactions :
        /\ u.credit_id = NoId
        /\ e.initial_card_id \in Ids(db.cards)
        /\ h.credit_id = e.id /\ h.type = "given"
        /\ t.credit_id = e.id /\ t.credit_history_id = h.id
        /\ t.type = "expense" /\ t.card_id = e.initial_card_id
        /\ e.status = "active" /\ e.returned_amount = 0
        /\ e.id \in Ids(cache.creditEntries)
        /\ \E older \in db.credit_entries :
                older.given_date < e.given_date
                    /\ older.status = "partially_returned"

\* the history insert of a return passes: the call does not fail and the
\* entry is there for the policy
ReturnInserted(id) == \E e \in db.credit_entries : e.id = id
ReceivedReturnInserted(id) == \E e \in db.credit_received : e.id = id

\* C23 (no compensating rollback): when addCreditReturn (resp.
\* addCreditReceivedReturn) has inserted its history row and the lookup of
\* the entry or the insert of the transaction fails, the operation rejects,
\* the new history row stays in the store without a transaction that refers
\* to it, and no other row changes.
C23_NoCompensatingRollback ==
    /\ \A id \in IssuedIds("credit_entries"), amount \in LedgerAmounts,
          pay \in PaymentChoices, failsAt \in 2..3, failsRefresh \in BOOLEAN :
        LET r == run_addCreditReturn(id, amount, pay.paymentMethod,
                    pay.cardId, failsAt, failsRefresh)
        IN  ReturnInserted(id) =>
                /\ ~r.ok
                /\ r.db.transactions = db.transactions
                /\ \E h \in r.db.credit_history :
                    /\ h.id \notin Ids(db.credit_history)
                    /\ r.db.credit_history = db.credit_history \cup {h}
                    /\ h.credit_id = id /\ h.type = "returned"
                    /\ \A t \in r.db.transactions : t.credit_history_id # h.id
    /\ \A id \in IssuedIds("credit_received"), amount \in LedgerAmounts,
          pay \in PaymentChoices, failsAt \in 2..3, failsRefresh \in BOOLEAN :
        LET r == run_addCreditReceivedReturn(id, amount, pay.paymentMethod,
                    pay.cardId, failsAt, failsRefresh)
        IN  ReceivedReturnInserted(id) =>
                /\ ~r.ok
                /\ r.db.transactions = db.transactions
                /\ \E h \in r.db.credit_received_history :
                    /\ h.id \notin Ids(db.credit_received_history)
                    /\ r.db.credit_received_history =
                            db.credit_received_history \cup {h}
                    /\ h.credit_received_id = id
                    /\ \A t \in r.db.transactions :
                            t.credit_received_history_id # h.id

\* a return was recorded in the history of an entry lent and no transaction
\* mirrors it
C23_ReturnWithoutMirror ==
    \E h \in db.credit_history :
        /\ h.type = "returned"
        /\ \A t \in db.transactions : t.credit_history_id # h.id

\* the back-reference fields of a transaction row
Links(r) ==
    <<r.credit_id, r.credit_history_id, r.credit_received_id,
      r.credit_received_history_id>>

\* C25 (back-references exclusive and immutable): no transaction of the
\* store has a credit-lent link (credit_id or credit_history_id) together
\* with a credit-received link (credit_received_id or
\* credit_received_history_id), and updateTransaction leaves the four
\* back-reference fields of every transaction as they were.
C25_LinksExclusiveAndImmutable ==
    /\ \A r \in db.transactions :
        ~ /\ (r.credit_id # NoId \/ r.credit_history_id # NoId)
          /\ (r.credit_received_id # NoId \/ r.credit_received_history_id # NoId)
    /\ \A t \in cache.transactions, fails \in BOOLEAN :
        \A updated \in Edited(t) :
            LET r == run_updateTransaction(updated, fails)
            IN  \A old \in db.transactions : \E new \in r.db.transactions :
                    new.id = old.id /\ Links(new) = Links(old)

\* the transaction of an entry lent and the transaction of an entry received
\* are in the store and one of them was edited
C25_BothKindsEdited ==
    /\ \E r \in db.transactions : r.credit_id # NoId
    /\ \E r \in db.transactions : r.credit_received_id # NoId
    /\ \E r \in db.transactions :
        r.amount \in EditedAmounts /\ Links(r) # <<NoId, NoId, NoId, NoId>>

\* C28 (return on a missing entry): addCreditReturn (resp.
\* addCreditReceivedReturn) with an entry id the store holds no entry for
\* rejects and leaves the store unchanged: no history row and no transaction
\* is created.
C28_ReturnOnMissingEntry ==
    /\ \A id \in IssuedIds("credit_entries"), amount \in LedgerAmounts,
          pay \in PaymentChoices, failsAt \in 0..3, failsRefresh \in BOOLEAN :
        LET r == run_addCreditReturn(id, amount, pay.paymentMethod,
                    pay.cardId, failsAt, failsRefresh)
        IN  id \notin Ids(db.credit_entries) => ~r.ok /\ r.db = db
    /\ \A id \in IssuedIds("credit_received"), amount \in LedgerAmounts,
          pay \in PaymentChoices, failsAt \in 0..3, failsRefresh \in BOOLEAN :
        LET r == run_addCreditReceivedReturn(id, amount, pay.paymentMethod,
                    pay.cardId, failsAt, failsRefresh)
        IN  id \notin Ids(db.credit_received) => ~r.ok /\ r.db = db

\* an entry lent is gone from the store, its id is still known to a caller
\* and there is room for a return
C28_EntryGone ==
    /\ \E id \in IssuedIds("credit_entries") : id \notin Ids(db.credit_entries)
    /\ HistoryIssued < ReturnMaxHistory

\* the type of the transaction that mirrors a history row of an entry lent
Polarity == [given |-> "expense", returned |-> "income"]

\* C35 (mirrored amounts agree): every transaction that mirrors a history
\* row of an entry lent has the amount of that row and is an expense for a
\* row given, an income for a row returned; every transaction that mirrors a
\* repayment of an entry received has the amount of the repayment and is an
\* expense.
C35_MirroredAmountsAgree ==
    /\ \A h \in db.credit_history, t \in db.transactions :
        t.credit_history_id = h.id =>
            t.amount = h.amount /\ t.type = Polarity[h.type]
    /\ \A h \in db.credit_received_history, t \in db.transactions :
        t.credit_received_history_id = h.id =>
            t.amount = h.amount /\ t.type = "expense"

(***************************************************************************)
(* Properties of the startup specification.                                *)
(***************************************************************************)
\* C31 (sign-out clears the cache for good): the signed-out event leaves no
\* user and the five cached collections empty, and as long as no user is
\* set they stay empty, also when a loadAllData that was started before the
\* sign-out completes after it.
C31_SignedOutCacheEmpty ==
    [][ /\ onAuthStateChange_signedOut =>
            userId' = NoUser /\ cache' = EmptyCache
        /\ (userId = NoUser /\ cache = EmptyCache /\ userId' = NoUser) =>
            cache' = EmptyCache ]_vars

\* C32 (no lost update from an overlapping load): when a run whose reads
\* were served joins them, every cached transaction that the store holds is
\* still cached afterwards, and no transaction is cached afterwards that is
\* neither cached now nor in the store.
C32_NoLostUpdate ==
    \A l \in Loaders :
        (userId = User /\ loader[l].pc = "join" /\ loader[l].failed = {}) =>
            LET r == loadAllData_join(cache, loader[l])
                stored == transactionService_getTransactions(db)
            IN  /\ cache.transactions \cap stored \subseteq r.cache.transactions
                /\ r.cache.transactions \subseteq cache.transactions \cup stored

\* C33 (loading terminates): when every remote call returns, the loading
\* flag, whenever it is true, becomes false again, and every run of
\* initializeAuth, of the callback and of loadAllData, the reload after the
\* loop of the defaults included, comes to its end.
C33_LoadingTerminates ==
    /\ loading ~> ~loading
    /\ \A l \in Loaders : (loader[l].pc # "done") ~> (loader[l].pc = "done")

\* a run is in the loop of the defaults, before the last of them, and the
\* flag is set
C33_InTheLoop ==
    \E l \in Loaders :
        loader[l].pc = "seed" /\ loader[l].i = Len(dummyCategories) /\ loading

\* C34 (all-or-nothing refresh): when one or more of the five joined reads
\* of a loadAllData has failed, the join leaves the five cached collections
\* as they are, loadAllData resolves, the run is over and loading is false.
C34_AllOrNothing ==
    \A l \in Loaders :
        (loader[l].pc = "join" /\ loader[l].failed # {}) =>
            LET r == loadAllData_join(cache, loader[l])
            IN  r.cache = cache /\ r.ok /\ r.pc = "done" /\ ~r.loading

\* one read of a run has failed and another one has returned categories the
\* cache does not show
C34_OneReadFailed ==
    \E l \in Loaders :
        /\ loader[l].pc = "join"
        /\ Cardinality(loader[l].failed) = 1
        /\ "categories" \notin loader[l].failed
        /\ loader[l].data.categories # cache.categories

(***************************************************************************)
(* Properties of the credit specification.                                 *)
(***************************************************************************)
\* what a read of the store gives now, and what earlier reads left in the cache
ReadCreditEntries == creditService_getCreditEntries(db) \cup cache.creditEntries
ReadCreditReceivedEntries ==
    creditReceivedService_getCreditReceivedEntries(db)
        \cup cache.creditReceivedEntries

C11_AddCreditReturnEffect ==
    [][ \A creditId \in CreditEntryIds, amount \in ReturnAmounts,
           pay \in PaymentChoices, failsRefresh \in BOOLEAN :
            LET r == run_addCreditReturn(creditId, amount, pay.paymentMethod,
                                         pay.cardId, 0, failsRefresh)
            IN  (r.ok /\ Step(r)) =>
                \E h \in db'.credit_history, t \in db'.transactions :
                    /\ h.id \notin Ids(db.credit_history)
                    /\ t.id \notin Ids(db.transactions)
                    /\ db'.credit_history = db.credit_history \cup {h}
                    /\ db'.transactions = db.transactions \cup {t}
                    /\ db'.credit_received_history = db.credit_received_history
                    /\ h.credit_id = creditId /\ h.type = "returned"
                    /\ h.amount = amount
                    /\ t.type = "income" /\ t.category = "Credit Return"
                    /\ t.amount = amount
                    /\ t.credit_id = creditId /\ t.credit_history_id = h.id
                    /\ t.credit_received_id = NoId
                    /\ t.credit_received_history_id = NoId
      ]_vars

\* a second return was recorded on an entry: each return has its own income
\* transaction, next to the mirror of the given item
C11_ReturnedTwice ==
    \E e \in db.credit_entries :
        \E h1, h2 \in {h \in db.credit_history :
                            h.credit_id = e.id /\ h.type = "returned"} :
            /\ h1.id # h2.id
            /\ \E t1, t2 \in {t \in db.transactions :
                                t.type = "income" /\ t.category = "Credit Return"} :
                t1.credit_history_id = h1.id /\ t2.credit_history_id = h2.id
            /\ \E g \in db.transactions :
                g.category = "Credit" /\ g.credit_id = e.id

\* C12 (credit received mirrors credit lent, polarity inverted): a successful
\* createCreditReceivedEntry adds exactly one transaction, an income of
\* category "Credit Received" whose creditReceivedId is the new entry's id; a
\* successful addCreditReceivedReturn adds exactly one history row and
\* exactly one transaction, an expense of category "Credit Return Paid" whose
\* creditReceivedId is the entry's id and whose creditReceivedHistoryId is the
\* new history row's id.
C12_CreditReceivedMirrors ==
    [][ /\ \A newEntry \in NewEntries, failsRefresh \in BOOLEAN :
            LET r == run_addCreditReceivedEntry(newEntry, 0, failsRefresh)
            IN  (r.ok /\ Step(r)) =>
                \E e \in db'.credit_received, t \in db'.transactions :
                    /\ e.id \notin Ids(db.credit_received)
                    /\ t.id \notin Ids(db.transactions)
                    /\ db'.credit_received = db.credit_received \cup {e}
                    /\ db'.transactions = db.transactions \cup {t}
                    /\ t.type = "income" /\ t.category = "Credit Received"
                    /\ t.amount = newEntry.amount
                    /\ t.credit_received_id = e.id
        /\ \A entryId \in CreditReceivedIds, amount \in ReturnAmounts,
              pay \in PaymentChoices, failsRefresh \in BOOLEAN :
            LET r == run_addCreditReceivedReturn(entryId, amount,
                        pay.paymentMethod, pay.cardId, 0, failsRefresh)
            IN  (r.ok /\ Step(r)) =>
                \E h \in db'.credit_received_history, t \in db'.transactions :
                    /\ h.id \notin Ids(db.credit_received_history)
                    /\ t.id \notin Ids(db.transactions)
                    /\ db'.credit_received_history =
                            db.credit_received_history \cup {h}
                    /\ db'.transactions = db.transactions \cup {t}
                    /\ h.credit_received_id = entryId /\ h.amount = amount
                    /\ t.type = "expense" /\ t.category = "Credit Return Paid"
                    /\ t.amount = amount
                    /\ t.credit_received_id = entryId
                    /\ t.credit_received_history_id = h.id
      ]_vars

\* an entry received has its income transaction and a repayment with its
\* expense transaction
C12_ReceivedAndRepaid ==
    \E e \in db.credit_received, h \in db.credit_received_history,
       t \in db.transactions, u \in db.transactions :
        /\ t.type = "income" /\ t.category = "Credit Received"
        /\ t.credit_received_id = e.id /\ t.credit_received_history_id = NoId
        /\ h.credit_received_id = e.id
        /\ u.type = "expense" /\ u.category = "Credit Return Paid"
        /\ u.credit_received_id = e.id /\ u.credit_received_history_id = h.id

\* C36 (frame of deleteCreditReceivedReturnHistory): for a history id the
\* store holds no repayment for, the operation rejects and the store is
\* unchanged; when it resolves, the store holds no repayment with that id
\* and no transaction that refers to it, and every other repayment, every
\* other transaction and the entry of the repayment are still there.
C36_DeleteReturnHistoryFrame ==
    \A entryId \in IssuedIds("credit_received"),
       historyId \in IssuedIds("credit_received_history"),
       f1 \in BOOLEAN, f2 \in BOOLEAN, f3 \in BOOLEAN, failsRefresh \in BOOLEAN :
        LET r == run_deleteCreditReceivedReturnHistory(entryId, historyId,
                    f1, f2, f3, failsRefresh)
            others == {t \in db.transactions :
                            t.credit_received_history_id # historyId}
        IN  /\ historyId \notin Ids(db.credit_received_history) =>
                    ~r.ok /\ r.db = db
            /\ r.ok =>
                /\ historyId \notin Ids(r.db.credit_received_history)
                /\ \A t \in r.db.transactions :
                        t.credit_received_history_id # historyId
                /\ {h \in db.credit_received_history : h.id # historyId}
                        \subseteq r.db.credit_received_history
                /\ others \subseteq r.db.transactions
                /\ \A h \in db.credit_received_history :
                        h.credit_received_id \in Ids(db.credit_received) =>
                            h.credit_received_id \in Ids(r.db.credit_received)

(***************************************************************************)
(* Properties of the category specification.                               *)
(***************************************************************************)
CategoryIds == Ids(db.categories) \cup Ids(cache.categories)

\* the name(s) the store and the cache hold for a category id
NamesOf(id) ==
    {c.name : c \in {x \in db.categories \cup cache.categories : x.id = id}}

\* C13 (category cascade): whenever deleteCategory(id) resolves for a
\* category named N, neither the store nor the cache holds the category, and
\* neither holds a transaction whose category is N.
C13_CategoryCascade ==
    [][ \A id \in CategoryIds, f1 \in BOOLEAN, f2 \in BOOLEAN :
            LET r == run_deleteCategory(id, f1, f2, FALSE)
            IN  (r.ok /\ Step(r)) =>
                    /\ id \notin Ids(db'.categories)
                    /\ id \notin Ids(cache'.categories)
                    /\ \A t \in db'.transactions : t.category \notin NamesOf(id)
                    /\ \A t \in cache'.transactions : t.category \notin NamesOf(id)
      ]_vars

\* a transaction of the store has the name of the category as its category
Referenced(d, id) ==
    \E c \in d.categories, t \in d.transactions :
        c.id = id /\ t.category = c.name

\* C14 (guarded category delete): deleteCategory on a category whose name a
\* transaction refers to rejects, and removes no transaction row and no
\* category row.
C14_GuardedCategoryDelete ==
    [][ \A id \in CategoryIds, f1 \in BOOLEAN, f2 \in BOOLEAN, f3 \in BOOLEAN :
            LET r == run_deleteCategory(id, f1, f2, f3)
            IN  (Referenced(db, id) /\ Step(r)) =>
                    /\ ~r.ok
                    /\ db'.transactions = db.transactions
                    /\ db'.categories = db.categories
      ]_vars

\* the user a row belongs to: its user_id, for a history row the user of
\* its entry
Owner(r, rows) ==
    IF r.table = "credit_history"
    THEN (CHOOSE e \in rows : e.table = "credit_entries" /\ e.id = r.credit_id).user_id
    ELSE r.user_id

RowsOfOthers(s, rows) == {r \in rows : Owner(r, rows) # s}

\* what the calls of the session of user s can make of the store
TenantCalls(s) ==
    {tenantInsert(tenantDb, s, table, user, id) :
        table \in TenantTables, user \in Users, id \in TenantIds}
    \cup {tenantUpdate(tenantDb, s, table, id, user) :
        table \in TenantTables, user \in Users, id \in TenantIds}
    \cup {tenantDelete(tenantDb, s, table, column, id) :
        table \in TenantTables, column \in {"id", "credit_id"}, id \in TenantIds}

\* C21 (per-user isolation): with the policies in force, a select of the
\* session of a user returns only rows of that user, and no insert, update
\* or delete of the session, whatever id or user_id it names, creates,
\* changes or removes a row of another user.
C21_PerUserIsolation ==
    \A s \in Users :
        /\ \A table \in TenantTables :
            \A r \in tenantSelect(tenantDb, s, table) :
                Owner(r, tenantDb.rows) = s
        /\ \A new \in TenantCalls(s) :
            RowsOfOthers(s, new.rows) = RowsOfOthers(s, tenantDb.rows)

\* each user has an entry with a history row, and one of the users has
\* edited a row
C21_BothUsersHaveRows ==
    /\ \A s \in Users : \E h \in tenantDb.rows :
            h.table = "credit_history" /\ Owner(h, tenantDb.rows) = s
    /\ \E r \in tenantDb.rows : r.edits = 1

\* C29 (password change verifies the current password): when the form is
\* filled in with a matching, strong new password and the current password
\* entered is not the password of the account, which the provider reports
\* as an error in its answer, handlePasswordChange shows "Incorrect current
\* password." and does not issue the password update.
C29_WrongPasswordRefused ==
    \A failsUpdate \in BOOLEAN :
        LET r == run_handlePasswordChange(FALSE, FALSE, failsUpdate)
        IN  (/\ profile.currentPassword \notin {"", profile.password}
             /\ profile.newPassword = profile.confirmPassword
             /\ calculatePasswordStrength[profile.newPassword].score >= 4) =>
                /\ r.profile.toast = "Incorrect current password."
                /\ ~r.issued

\* position of a call in the log of a service call (0: not returned)
At(t, call) ==
    IF call \in Returned(t)
    THEN CHOOSE i \in DOMAIN t.log : t.log[i] = call ELSE 0

\* C24 (cascade order): in deleteCreditEntry, deleteCreditReceivedEntry,
\* deleteCreditReceivedReturnHistory and deleteCategory the delete of the
\* entry / history row / category is issued only after the delete of its
\* transactions has returned, and for the two entry deletes the delete of
\* the history rows lies between them.
C24_CascadeOrder ==
    \A t \in tasks :
        (Len(Calls[t.op]) > 1 /\ "parent" \in Returned(t)) =>
            /\ 0 < At(t, "transactions")
            /\ At(t, "transactions") < At(t, "parent")
            /\ "history" \in Returned(t) =>
                    /\ At(t, "transactions") < At(t, "history")
                    /\ At(t, "history") < At(t, "parent")

\* the names and types of the default categories
DefaultCategories ==
    {[name |-> dummyCategories[i].name, type |-> dummyCategories[i].type] :
        i \in DOMAIN dummyCategories}

\* C22 (reset to defaults): when resetToDefaults has resolved, the store
\* holds none of the user's transactions and the user's categories are
\* exactly the default ones.
C22_ResetRestoresDefaults ==
    reset.pc = "resolved" =>
        /\ db.transactions = {}
        /\ {[name |-> c.name, type |-> c.type] : c \in db.categories}
                = DefaultCategories

\* C30 (reset under interleaving): in every interleaving of its branches in
\* which resetToDefaults resolves, the store holds no transaction, card,
\* credit entry, credit-received entry or credit history row, and the cache
\* shows that store.
C30_ResetEmptiesStoreAndCache ==
    reset.pc = "resolved" =>
        /\ db.transactions = {} /\ db.cards = {}
        /\ db.credit_entries = {} /\ db.credit_received = {}
        /\ db.credit_history = {} /\ db.credit_received_history = {}
        /\ cache = loadAllData(db, EmptyCache, FALSE)

\* what the handlers give when they are invoked from the pages that are open
OpenedCalls ==
    {run_addTransaction(t, FALSE) : t \in PlainTransactions}
    \cup {run_deleteTransaction(id, FALSE) : id \in IssuedIds("transactions")}
    \cup {run_updateTransaction(updated, FALSE) :
            updated \in UNION {Edited(t) : t \in OpenedTransactions}}
    \cup {run_addCategory(c, FALSE) : c \in NewCategories}
    \cup {run_deleteCategory(id, FALSE, FALSE, FALSE) :
            id \in IssuedIds("categories")}
    \cup {run_updateCategory([c EXCEPT !.name = name], FALSE, 0) :
            c \in categoryService_getCategories(db), name \in RenameNames}
    \cup {run_addCard(FALSE)}
    \cup {run_deleteCard(id, FALSE, FALSE, FALSE) : id \in IssuedIds("cards")}
    \cup {run_addCreditEntry(e, 0, FALSE) : e \in NewEntries}
    \cup {run_addCreditReturn(id, amount, "cash", NoId, 0, FALSE) :
            id \in IssuedIds("credit_entries"), amount \in LedgerAmounts}
    \cup {run_deleteCreditEntry(id, FALSE, FALSE, FALSE, FALSE) :
            id \in IssuedIds("credit_entries")}
    \cup {run_addCreditReceivedEntry(e, 0, FALSE) : e \in NewEntries}
    \cup {run_addCreditReceivedReturn(id, amount, "cash", NoId, 0, FALSE) :
            id \in IssuedIds("credit_received"), amount \in LedgerAmounts}
    \cup {run_deleteCreditReceivedEntry(id, FALSE, FALSE, FALSE, FALSE) :
            id \in IssuedIds("credit_received")}

\* C26 (not-signed-in guard): while no user is signed in, every mutation of
\* the DataContext rejects and leaves the store and the cache as they were,
\* also when no remote call fails.
C26_SignedOutRejects ==
    userId = NoUser =>
        \A r \in OpenedCalls : ~r.ok /\ r.db = db /\ r.cache = cache

\* the cached categories with the name of c, letter case aside
SameName(c) == {x \in cache.categories : LowerCase[x.name] = LowerCase[c.name]}

\* C27 (duplicate category): addCategory with a name that equals, letter
\* case aside, the name of a cached category of the same type rejects and
\* leaves the store and the cached list as they were; when the cached
\* categories of that name all have the other type, the insert is issued and
\* the category is added unless the call fails.
C27_DuplicateCategoryRejected ==
    \A c \in NewCategories, fails \in BOOLEAN :
        LET r == run_addCategory(c, fails)
        IN  /\ (\E x \in SameName(c) : x.type = c.type) =>
                    ~r.ok /\ r.db = db /\ r.cache = cache
            /\ (SameName(c) # {} /\ (\A x \in SameName(c) : x.type # c.type)
                    /\ ~fails /\ CategoriesUnique(db, [id |-> NoId, name |-> c.name,
                                              type |-> c.type])) =>
                    /\ r.ok
                    /\ \E x \in r.cache.categories \ cache.categories :
                            x.name = c.name /\ x.type = c.type

\* the cached list holds one name under both types
C27_SameNameBothTypes ==
    \E x \in cache.categories, y \in cache.categories :
        LowerCase[x.name] = LowerCase[y.name] /\ x.type # y.type

\* the transactions of the other type under the name of category c
OtherType(c, transactions) ==
    {t \in transactions : t.category = c.name /\ t.type # c.type}

\* C37 (category operations scoped to the type): deleteCategory and
\* updateCategory on a category of name N and type T leave every transaction
\* of the other type whose category is N as it was, in the store and among
\* the transactions shown.
C37_ScopedToType ==
    /\ \A c \in cache.categories, f1 \in BOOLEAN, f2 \in BOOLEAN, f3 \in BOOLEAN :
        LET r == run_deleteCategory(c.id, f1, f2, f3)
        IN  /\ OtherType(c, db.transactions) \subseteq r.db.transactions
            /\ OtherType(c, cache.transactions) \subseteq r.cache.transactions
    /\ \A updated \in RenamedCategories, failsCategory \in BOOLEAN,
          failsAt \in 0..CatMaxTransactions :
        LET r == run_updateCategory(updated, failsCategory, failsAt)
        IN  \A c \in cache.categories :
                c.id = updated.id =>
                    /\ OtherType(c, db.transactions) \subseteq r.db.transactions
                    /\ OtherType(c, cache.transactions)
                            \subseteq r.cache.transactions

\* C19 (category uniqueness): during and after startup (two loadAllData runs
\* creating the defaults) and after any addCategory, updateCategory and
\* deleteCategory, no two categories of the user have the same name and type,
\* in the store and among the categories shown.
C19_CategoryUniqueness ==
    /\ \A c1, c2 \in db.categories :
          (c1.name = c2.name /\ c1.type = c2.type) => c1.id = c2.id
    /\ \A c1, c2 \in cache.categories :
          (c1.name = c2.name /\ c1.type = c2.type) => c1.id = c2.id

\* C20 (rename propagation): whenever updateCategory resolves after changing
\* a category's name from A to B, no transaction in the store or in the cache
\* has category A, and every transaction that had category A has category B.
C20_RenamePropagation ==
    [][ \A updated \in RenamedCategories, failsAt \in 0..CatMaxTransactions :
            LET r == run_updateCategory(updated, FALSE, failsAt)
                A == NamesOf(updated.id) \ {updated.name}
            IN  (r.ok /\ Step(r)) =>
                    /\ \A t \in db'.transactions : t.category \notin A
                    /\ \A t \in cache'.transactions : t.category \notin A
                    /\ \A t \in db.transactions :
                        t.category \in A =>
                            \E u \in db'.transactions :
                                u.id = t.id /\ u.category = updated.name
      ]_vars

(***************************************************************************)
(* Properties of every mutation.  An outcome pairs what a handler leaves   *)
(* (r) with whether a remote call it issued has failed.                    *)
(***************************************************************************)
Outcome(failed, r) == [failed |-> failed, r |-> r]

TransactionOutcomes ==
    {Outcome(fails, run_addTransaction(t, fails)) :
        t \in PlainTransactions \cup CategoryTransactions, fails \in BOOLEAN}
    \cup {Outcome(fails, run_deleteTransaction(t.id, fails)) :
            t \in cache.transactions, fails \in BOOLEAN}

\* updateCategory issues the rename of the i-th transaction when the update
\* of the category succeeded and the list has an i-th transaction
CategoryOutcomes ==
    {Outcome(fails, run_addCategory(c, fails)) :
        c \in NewCategories, fails \in BOOLEAN}
    \cup {Outcome(f.get \/ f.category
                    \/ (f.transactions /\ ~f.get /\ c.id \in Ids(db.categories)),
                  run_deleteCategory(c.id, f.get, f.transactions, f.category)) :
            c \in cache.categories,
            f \in [get : BOOLEAN, transactions : BOOLEAN, category : BOOLEAN]}
    \cup {LET r == run_updateCategory(u, f.category, f.at)
          IN  Outcome(f.category \/ (f.at > 0 /\ ~r.ok), r) :
            u \in RenamedCategories,
            f \in [category : BOOLEAN, at : 0..CatMaxTransactions]}

\* deleteCard issues the credit_entries query when the transactions query
\* succeeded and found nothing, and the delete when the card is not in use
CardOutcomes ==
    {Outcome(fails, run_addCard(fails)) : fails \in BOOLEAN}
    \cup {LET inUse == cardService_isCardInUse(db, c.id, f.transactions, f.credit)
          IN  Outcome(\/ f.transactions
                      \/ (f.credit /\ ~\E t \in db.transactions : t.card_id = c.id)
                      \/ (f.delete /\ inUse.ok /\ ~inUse.value),
                      run_deleteCard(c.id, f.transactions, f.credit, f.delete)) :
            c \in cache.cards,
            f \in [transactions : BOOLEAN, credit : BOOLEAN, delete : BOOLEAN]}

\* the refresh is issued when the service call succeeded
CreditOutcomes ==
    {LET r == run_addCreditEntry(e, f.at, f.refresh)
     IN  Outcome(f.at > 0 \/ (f.refresh /\ r.ok), r) :
        e \in NewEntries, f \in [at : 0..3, refresh : BOOLEAN]}
    \cup {LET r == run_addCreditReturn(e.id, amount, pay.paymentMethod,
                        pay.cardId, f.at, f.refresh)
          IN  Outcome(f.at > 0 \/ (f.refresh /\ r.ok), r) :
            e \in cache.creditEntries, amount \in ReturnAmounts,
            pay \in PaymentChoices, f \in [at : 0..3, refresh : BOOLEAN]}
    \cup {LET r == run_deleteCreditEntry(e.id, f.transactions, f.history,
                        f.entry, f.refresh)
          IN  Outcome(f.transactions \/ f.history \/ f.entry
                        \/ (f.refresh /\ r.ok), r) :
            e \in cache.creditEntries,
            f \in [transactions : BOOLEAN, history : BOOLEAN, entry : BOOLEAN,
                   refresh : BOOLEAN]}

CreditReceivedOutcomes ==
    {LET r == run_addCreditReceivedEntry(e, f.at, f.refresh)
     IN  Outcome(f.at > 0 \/ (f.refresh /\ r.ok), r) :
        e \in NewEntries, f \in [at : 0..2, refresh : BOOLEAN]}
    \cup {LET r == run_addCreditReceivedReturn(e.id, amount, pay.paymentMethod,
                        pay.cardId, f.at, f.refresh)
          IN  Outcome(f.at > 0 \/ (f.refresh /\ r.ok), r) :
            e \in cache.creditReceivedEntries, amount \in ReturnAmounts,
            pay \in PaymentChoices, f \in [at : 0..3, refresh : BOOLEAN]}
    \cup {LET r == run_deleteCreditReceivedEntry(e.id, f.transactions,
                        f.history, f.entry, f.refresh)
          IN  Outcome(f.transactions \/ f.history \/ f.entry
                        \/ (f.refresh /\ r.ok), r) :
            e \in cache.creditReceivedEntries,
            f \in [transactions : BOOLEAN, history : BOOLEAN, entry : BOOLEAN,
                   refresh : BOOLEAN]}

Outcomes ==
    TransactionOutcomes \cup CategoryOutcomes \cup CardOutcomes
        \cup CreditOutcomes \cup CreditReceivedOutcomes

\* what the reads of loadAllData give for a store
Mirror(d) == loadAllData(d, EmptyCache, FALSE)

\* C15 (every error surfaces): when a remote call issued during a mutation
\* fails (a dependent delete and the refresh reads included), the mutation
\* rejects.
C15_EveryErrorSurfaces ==
    [][ \A o \in Outcomes : (o.failed /\ Step(o.r)) => ~o.r.ok ]_vars

\* C16 (a failed mutation leaves the displayed state untouched): whenever a
\* mutation rejects, the cached transactions, categories, cards, credit
\* entries and credit-received entries are what they were before it started.
C16_FailedMutationKeepsCache ==
    [][ \A o \in Outcomes : (~o.r.ok /\ Step(o.r)) => cache' = cache ]_vars

\* C17 (cache mirrors store): whenever a mutation resolves, the cached
\* transactions, categories, cards, credit entries and credit-received
\* entries (with their histories) are the rows the store holds.
C17_CacheMirrorsStore ==
    [][ \A o \in Outcomes : (o.r.ok /\ Step(o.r)) => cache' = Mirror(db') ]_vars

\* C18 (one given item per entry): in every store state, also one left by a
\* failed createCreditEntry or deleteCreditEntry, every credit_entries row has
\* exactly one credit_history row of type given; addCreditReturn adds rows of
\* type returned only.
C18_OneGivenPerEntry ==
    [][ /\ \A e \in db'.credit_entries :
            Cardinality({h \in db'.credit_history :
                            h.credit_id = e.id /\ h.type = "given"}) = 1
        /\ \A o \in CreditOutcomes :
            (o.r.db.credit_entries = db.credit_entries /\ Step(o.r)) =>
                \A h \in db'.credit_history \ db.credit_history :
                    h.type = "returned"
      ]_vars

(***************************************************************************)
(* Properties of the balance specification.                                *)
(***************************************************************************)
Permuted(p) == [i \in DOMAIN bTransactions |-> bTransactions[p[i]]]

\* C8 (order independence, P3): for every set of cards and every list of
\* transactions, the balances computed over any permutation of the list are
\* the balances computed over the list.
C8_OrderIndependence ==
    bBalances # NotRendered =>
        \A p \in Permutations(DOMAIN bTransactions) :
            balances(bCards, Snapshot(Permuted(p))) = bBalances

\* the reference rule: where a transaction goes
ToCard(cards, t, c) == t.cardId # NoId /\ t.cardId \in Ids(cards) /\ t.cardId = c
ToCash(cards, t) ==
    /\ ~(t.cardId # NoId /\ t.cardId \in Ids(cards))
    /\ t.type = "income" \/ t.paymentMethod = "cash"

\* incomes added to and expenses subtracted from acc, in the order of s
RECURSIVE Settle(_, _)
Settle(acc, s) ==
    IF s = <<>> THEN acc
    ELSE Settle(IF Head(s).type = "income" THEN FloatAdd(acc, Head(s).amount)
                ELSE FloatSub(acc, Head(s).amount),
                Tail(s))

ReferenceBalances(cards, transactions) ==
    [cash |-> LET Test(t) == ToCash(cards, t)
              IN  Settle(FloatZero, SelectSeq(transactions, Test)),
     card |-> [c \in Ids(cards) |->
                LET Test(t) == ToCard(cards, t, c)
                IN  Settle(FloatZero, SelectSeq(transactions, Test))]]

\* C9 (reference rule): the rendered map has the key cash and exactly the
\* known card ids, each from 0; an income adds its amount to its card if the
\* card is set and known, else to cash; an expense subtracts its amount from
\* its card if set and known, else from cash only if it was paid in cash, and
\* otherwise changes nothing.
C9_BalancesAreReference ==
    bBalances # NotRendered =>
        /\ DOMAIN bBalances = {"cash", "card"}
        /\ DOMAIN bBalances.card = Ids(bCards)
        /\ bBalances = ReferenceBalances(bCards, Snapshot(bTransactions))

\* two incomes of 50 on the card and a cash expense of 20 are rendered as
\* cash -20 and card 100
C9_FiftyFiftyTwenty ==
    /\ bCards = {[id |-> BalanceCard]}
    /\ Len(bTransactions) = 3
    /\ \A i \in 1..2 :
          bTransactions[i] = [type |-> "income", amount |-> 5000,
                              paymentMethod |-> "card", cardId |-> BalanceCard]
    /\ bTransactions[3] = [type |-> "expense", amount |-> 2000,
                           paymentMethod |-> "cash", cardId |-> NoId]
    /\ bBalances # NotRendered
    \* -20 = -(2^4 + 2^2), 100 = 2^6 + 2^5 + 2^2
    /\ bBalances.cash = [neg |-> TRUE, mag |-> {2, 4}]
    /\ bBalances.card[BalanceCard] = [neg |-> FALSE, mag |-> {2, 5, 6}]

====
